---- MODULE Spec2Model ----
(***************************************************************************)
(* A model of the s3Dgraphy importers and of the connections datamodel.    *)
(*                                                                         *)
(* The components are modelled each with its own specification over the    *)
(* same variables:                                                         *)
(*   SpecDatamodel  edges/connections_loader.py  (loader and singleton)    *)
(*   SpecTabular    importer/base_importer.py and mapped_xlsx_importer.py  *)
(*   SpecGraphML    importer/import_graphml.py                             *)
(*   SpecPrefix     utils/utils.py  (manage_id_prefix)                     *)
(*   SpecRegistry   mappings/registry.py                                   *)
(*   SpecEnhancer   importer/import_graphml.py  (enhance_edge_type)        *)
(* The graph engine (graph.py) and the node classes are not part of the    *)
(* sources at hand; add_node / add_edge follow section 4.2 of the          *)
(* specification.                                                          *)
(***************************************************************************)
EXTENDS Integers, Sequences, FiniteSets, TLC

VARIABLES
    \* ---- connections datamodel (connections_loader.py)
    dmFile,         \* the edge_types object of the JSON file on disk
    dmEdits,        \* how many times the file has been edited
    globalDM,       \* _global_datamodel: NoDM or a ConnectionsDatamodel
    dmInstance,     \* how many ConnectionsDatamodel instances were built for it
    edgeModule,     \* edges/edge.py: _connections_datamodel and EDGE_TYPES
    lastEdge,       \* the last Edge(...) construction: its type and outcome
    \* ---- tabular importer (base_importer.py, mapped_xlsx_importer.py)
    tab,            \* the importer: mapping, flags, warnings, counters
    tgraph,         \* the graph the importer writes into
    trows,          \* the data rows of the sheet, after the header
    tpc,            \* position of parse(): index of the next row, or "done"
    firstRun,       \* the graph a previous run of the importer left
    \* ---- GraphML importer (import_graphml.py)
    gfile,          \* the GraphML file on disk
    imp,            \* the GraphMLImporter instance and its graph
    gpc,            \* position of parse()
    gi,             \* index of the element the current pass is at
    firstParse,     \* what the previous parse of the file adopted
    \* ---- utilities (utils/utils.py)
    pfx,            \* a name, a graph code and the results of manage_id_prefix
    \* ---- mapping registry (mappings/registry.py)
    reg,            \* the MappingRegistry: directories of one mapping type
    disk,           \* the files each directory on disk holds
    lastFind,       \* the last find_mapping_file call: its name and result
    \* ---- edge-type enhancer (import_graphml.py, enhance_edge_type)
    enh,            \* a raw type, two endpoint kinds and the type returned
    uuidCounter     \* source of fresh uuid4 values

dmVars  == <<dmFile, dmEdits, globalDM, dmInstance, edgeModule, lastEdge>>
tabVars == <<tab, tgraph, trows, tpc, firstRun>>
gmlVars == <<gfile, imp, gpc, gi, firstParse>>
regVars == <<reg, disk, lastFind>>
utilVars == <<pfx, reg, disk, lastFind, enh>>
vars    == <<dmFile, dmEdits, globalDM, dmInstance, edgeModule, lastEdge, tab, tgraph, trows, tpc, firstRun,
             gfile, imp, gpc, gi, firstParse, pfx, reg, disk, lastFind, enh,
             uuidCounter>>

None == "none"

\* dict[k] = v on a Python dict modelled as a function
Put(f, k, v) == [x \in (DOMAIN f) \cup {k} |-> IF x = k THEN v ELSE f[x]]

EmptyDict == [x \in {} |-> None]

Range(s) == {s[i] : i \in DOMAIN s}

(***************************************************************************)
(*                        CONNECTIONS DATAMODEL                            *)
(***************************************************************************)

\* ConnectionsDatamodel._load_datamodel, second pass: the loop over
\* edge_types.items(), in the order of the JSON object.
RECURSIVE load_expanded(_, _, _)
load_expanded(edge_types, i, expanded) ==
    IF i > Len(edge_types) THEN expanded
    ELSE
      LET edge_def == edge_types[i]
          canonical == [ name           |-> edge_def.name,
                         source         |-> edge_def.source,
                         target         |-> edge_def.target,
                         is_canonical   |-> TRUE,
                         is_symmetric   |-> (edge_def.reverse = None),
                         reverse_name   |-> edge_def.reverse,
                         canonical_name |-> None ]
          reversed  == [ name           |-> edge_def.reverse,
                         source         |-> edge_def.target,
                         target         |-> edge_def.source,
                         is_canonical   |-> FALSE,
                         is_symmetric   |-> FALSE,
                         reverse_name   |-> None,
                         canonical_name |-> edge_def.name ]
          e1 == Put(expanded, edge_def.name, canonical)
          e2 == IF edge_def.reverse # None
                THEN Put(e1, edge_def.reverse, reversed)
                ELSE e1
      IN load_expanded(edge_types, i + 1, e2)

\* ConnectionsDatamodel.__init__ / _load_datamodel
load_datamodel(edge_types) ==
    [ canonical_edges |-> edge_types,
      expanded_edges  |-> load_expanded(edge_types, 1, EmptyDict),
      loaded          |-> TRUE ]

\* ConnectionsDatamodel.get_reverse_name
get_reverse_name(dm, edge_name) ==
    IF edge_name \notin DOMAIN dm.expanded_edges THEN None
    ELSE LET edge_def == dm.expanded_edges[edge_name] IN
         IF edge_def.is_symmetric THEN None
         ELSE IF edge_def.is_canonical THEN edge_def.reverse_name
         ELSE edge_def.canonical_name

\* ConnectionsDatamodel.is_symmetric
is_symmetric(dm, edge_name) ==
    IF edge_name \in DOMAIN dm.expanded_edges
    THEN dm.expanded_edges[edge_name].is_symmetric ELSE FALSE

\* ConnectionsDatamodel.get_allowed_sources / get_allowed_targets
get_allowed_sources(dm, edge_name) ==
    IF edge_name \in DOMAIN dm.expanded_edges
    THEN dm.expanded_edges[edge_name].source ELSE {}

get_allowed_targets(dm, edge_name) ==
    IF edge_name \in DOMAIN dm.expanded_edges
    THEN dm.expanded_edges[edge_name].target ELSE {}

\* ConnectionsDatamodel.validate_connection, with the test of one endpoint
\* dropped
validate_connection_source_only(dm, source_type, target_type, edge_name) ==
    IF edge_name \notin DOMAIN dm.expanded_edges THEN FALSE
    ELSE source_type \in dm.expanded_edges[edge_name].source

\* ConnectionsDatamodel.validate_connection
validate_connection(dm, source_type, target_type, edge_name) ==
    IF edge_name \notin DOMAIN dm.expanded_edges THEN FALSE
    ELSE /\ source_type \in dm.expanded_edges[edge_name].source
         /\ target_type \in dm.expanded_edges[edge_name].target

\* _global_datamodel = None
NoDM == [ canonical_edges |-> <<>>, expanded_edges |-> EmptyDict,
          loaded |-> FALSE ]

\* ---- the datamodel files the loader is run on
MaxEdgeTypes == 2
MaxEdits == 1

DMEdgeNames == {"is_after", "is_before", "has_same_time"}

DMEntries == [ name    : DMEdgeNames,
               reverse : DMEdgeNames \cup {None},
               source  : {{"US"}},
               target  : {{"US"}, {"DocumentNode"}} ]

\* a JSON object has each key once
DistinctKeys(edge_types) ==
    \A i, j \in DOMAIN edge_types :
        edge_types[i].name = edge_types[j].name => i = j

DatamodelFiles ==
    UNION { { f \in [1..n -> DMEntries] : DistinctKeys(f) } : n \in 1..MaxEdgeTypes }

EditedDatamodelFiles == [1..1 -> DMEntries]

\* instances built for _global_datamodel in one run
MaxLoads == 2

\* edge.py has not been imported
NotImported ==
    [ imported |-> FALSE, instance |-> 0, connections_datamodel |-> NoDM,
      EDGE_TYPES |-> {} ]

NoEdge == [ constructed |-> FALSE, edge_type |-> None, err |-> "ok" ]

\* ConnectionsDatamodel.get_all_edge_names(canonical_only=False)
get_all_edge_names(dm) == DOMAIN dm.expanded_edges

\* edge.py, _build_legacy_edge_types: the keys of EDGE_TYPES
build_legacy_edge_types(dm) == get_all_edge_names(dm)

\* Edge.__init__, lines 34-36: the edge type is looked up in EDGE_TYPES
edge_init_error(module, current, edge_type) ==
    IF edge_type \notin module.EDGE_TYPES THEN "ValueError" ELSE "ok"

\* get_connections_datamodel(): loads on the first call only
GetConnectionsDatamodel ==
    /\ globalDM' = IF globalDM.loaded THEN globalDM ELSE load_datamodel(dmFile)
    /\ dmInstance' = IF globalDM.loaded THEN dmInstance ELSE dmInstance + 1
    /\ UNCHANGED <<dmFile, dmEdits, edgeModule, lastEdge>>

\* reload_connections_datamodel(): always builds a new instance
ReloadConnectionsDatamodel ==
    /\ dmInstance < MaxLoads
    /\ globalDM' = load_datamodel(dmFile)
    /\ dmInstance' = dmInstance + 1
    /\ UNCHANGED <<dmFile, dmEdits, edgeModule, lastEdge>>

\* edge.py is imported: lines 1-19 call get_connections_datamodel(), keep the
\* instance as _connections_datamodel and build EDGE_TYPES from it
ImportEdgeModule ==
    /\ ~ edgeModule.imported
    /\ LET dm == IF globalDM.loaded THEN globalDM ELSE load_datamodel(dmFile)
           instance == IF globalDM.loaded THEN dmInstance ELSE dmInstance + 1
       IN /\ globalDM' = dm
          /\ dmInstance' = instance
          /\ edgeModule' = [ imported |-> TRUE, instance |-> instance,
                             connections_datamodel |-> dm,
                             EDGE_TYPES |-> build_legacy_edge_types(dm) ]
    /\ UNCHANGED <<dmFile, dmEdits, lastEdge>>

\* Edge(edge_id, edge_source, edge_target, edge_type)
ConstructEdge ==
    /\ edgeModule.imported
    /\ \E edge_type \in DMEdgeNames :
          lastEdge' = [ constructed |-> TRUE, edge_type |-> edge_type,
                        err |-> edge_init_error(edgeModule, globalDM, edge_type) ]
    /\ UNCHANGED <<dmFile, dmEdits, globalDM, dmInstance, edgeModule>>

\* the JSON file is replaced on disk ("when the JSON file has been updated")
EditDatamodelFile ==
    /\ dmEdits < MaxEdits
    /\ \E f \in EditedDatamodelFiles :
          /\ f # dmFile
          /\ dmFile' = f
    /\ dmEdits' = dmEdits + 1
    /\ UNCHANGED <<globalDM, dmInstance, edgeModule, lastEdge>>

(***************************************************************************)
(*                 THE DATAMODEL THE IMPORTERS RUN WITH                    *)
(***************************************************************************)

StratigraphicTypes == {"US", "USVs", "USVn", "serSU", "serUSVs", "serUSVn",
                       "SF", "VSF", "USD", "TSU", "SE", "BR"}
ParadataTypes == {"DocumentNode", "ExtractorNode", "CombinerNode", "PropertyNode"}
GroupTypes == {"GroupNode", "ActivityNodeGroup", "ParadataNodeGroup",
               "TimeBranchNodeGroup"}
AllNodeTypes == StratigraphicTypes \cup ParadataTypes \cup GroupTypes
                  \cup {"StratigraphicNode", "EpochNode", "LinkNode",
                        "AuthorNode", "Node"}

\* section 4.2: a kind matches an allowed list by its own tag or by the
\* name of a broader parent kind
KindNames(kind) ==
    {kind, "Node"}
      \cup (IF kind \in StratigraphicTypes THEN {"StratigraphicNode"} ELSE {})
      \cup (IF kind \in ParadataTypes THEN {"ParadataNode"} ELSE {})
      \cup (IF kind \in GroupTypes THEN {"GroupNode"} ELSE {})

EdgeType(n, s, t, r) == [name |-> n, source |-> s, target |-> t, reverse |-> r]

\* the edge_types of s3Dgraphy_connections_datamodel.json that the importers use
StandardEdgeTypes == <<
    EdgeType("is_after", {"StratigraphicNode"}, {"StratigraphicNode"}, "is_before"),
    EdgeType("has_same_time", {"StratigraphicNode"}, {"StratigraphicNode"}, None),
    EdgeType("changed_from", {"StratigraphicNode"}, {"StratigraphicNode"}, "changed_to"),
    EdgeType("contrasts_with", {"StratigraphicNode"}, {"StratigraphicNode"}, None),
    EdgeType("has_data_provenance", {"Node"}, {"Node"}, "is_data_provenance_of"),
    EdgeType("generic_connection", {"Node"}, {"Node"}, None),
    EdgeType("has_property", {"StratigraphicNode"}, {"PropertyNode"}, "is_property_of"),
    EdgeType("has_paradata_nodegroup", {"StratigraphicNode", "ActivityNodeGroup"},
             {"ParadataNodeGroup"}, "is_paradata_nodegroup_of"),
    EdgeType("extracted_from", {"ExtractorNode"}, {"DocumentNode"}, "has_extractor"),
    EdgeType("combines", {"CombinerNode"}, {"ExtractorNode"}, "is_combined_in"),
    EdgeType("has_documentation", {"StratigraphicNode"}, {"DocumentNode"},
             "is_documentation_of"),
    EdgeType("is_in_paradata_nodegroup", {"ParadataNode"}, {"ParadataNodeGroup"},
             "has_in_paradata_nodegroup"),
    EdgeType("is_in_activity", {"StratigraphicNode", "ParadataNodeGroup"},
             {"ActivityNodeGroup"}, "has_in_activity"),
    EdgeType("is_in_timebranch", {"StratigraphicNode"}, {"TimeBranchNodeGroup"},
             "has_in_timebranch"),
    EdgeType("has_linked_resource", {"Node"}, {"LinkNode"}, "is_linked_resource_of"),
    EdgeType("has_first_epoch", {"StratigraphicNode"}, {"EpochNode"}, "is_first_epoch_of"),
    EdgeType("survive_in_epoch", {"StratigraphicNode"}, {"EpochNode"},
             "is_surviving_epoch_of"),
    EdgeType("has_author", {"AuthorNode"}, {"Node"}, "is_author_of") >>

StandardDatamodel == load_datamodel(StandardEdgeTypes)

(***************************************************************************)
(*                    GRAPH ENGINE (specification 4.2)                     *)
(***************************************************************************)

\* a node; the attribute bag is flattened into fields, None = key absent
NewNode(node_id, name, node_type) ==
    [ node_id |-> node_id, name |-> name, node_type |-> node_type,
      description |-> "", value |-> None, url |-> "",
      original_name |-> None, original_id |-> None, URI |-> None,
      has_y_pos |-> FALSE, y_pos |-> 0, min_y |-> 0, max_y |-> 0 ]

NewEdge(edge_id, edge_source, edge_target, edge_type) ==
    [ edge_id |-> edge_id, edge_source |-> edge_source,
      edge_target |-> edge_target, edge_type |-> edge_type,
      original_edge_id |-> None ]

EmptyGraph == [ nodes |-> <<>>, edges |-> <<>> ]

NodeIds(graph) == { graph.nodes[i].node_id : i \in DOMAIN graph.nodes }
EdgeIds(graph) == { graph.edges[i].edge_id : i \in DOMAIN graph.edges }

\* Graph.find_node_by_id; the caller tests HasNode first
HasNode(graph, node_id) == node_id \in NodeIds(graph)
find_node_by_id(graph, node_id) ==
    graph.nodes[CHOOSE i \in DOMAIN graph.nodes : graph.nodes[i].node_id = node_id]

\* Graph.add_node: fails duplicate-id if I1 would be violated
add_node_error(graph, node) ==
    IF HasNode(graph, node.node_id) THEN "duplicate-id" ELSE "ok"
add_node(graph, node) == [graph EXCEPT !.nodes = Append(@, node)]

\* I4: the kinds are in the allowed lists of the expanded datamodel
connection_allowed(dm, source_kind, target_kind, edge_type) ==
    \E s \in KindNames(source_kind), t \in KindNames(target_kind) :
        validate_connection(dm, s, t, edge_type)

\* Graph.add_edge: unknown-node, unknown-edge-type, forbidden-connection,
\* duplicate-id
add_edge_error(graph, dm, edge_id, edge_source, edge_target, edge_type) ==
    IF ~HasNode(graph, edge_source) \/ ~HasNode(graph, edge_target)
      THEN "unknown-node"
    ELSE IF edge_type \notin DOMAIN dm.expanded_edges
      THEN "unknown-edge-type"
    ELSE IF ~connection_allowed(dm,
               find_node_by_id(graph, edge_source).node_type,
               find_node_by_id(graph, edge_target).node_type, edge_type)
      THEN "forbidden-connection"
    ELSE IF edge_id \in EdgeIds(graph)
      THEN "duplicate-id"
    ELSE "ok"
add_edge(graph, edge) == [graph EXCEPT !.edges = Append(@, edge)]

(***************************************************************************)
(*                           TABULAR IMPORTER                              *)
(***************************************************************************)

MaxRows == 2

\* ---- column names, as the characters normalize_column_name works on
Chars(name) ==
    CASE name = "US"            -> <<"U", "S">>
      [] name = "us"            -> <<"u", "s">>
      [] name = " Us."          -> <<" ", "U", "s", ".">>
      [] name = "DESCRIPTION"   -> <<"D">>
      [] name = "MATERIAL_TYPE" -> <<"M", "_", "T">>
      [] name = "Material Type" -> <<"M", " ", "T">>
      [] name = "m - t"         -> <<"m", " ", "-", " ", "t">>
      [] name = "Notes"         -> <<"N">>
      [] OTHER                  -> <<name>>

\* str.upper()
Upper(c) ==
    CASE c = "u" -> "U" [] c = "s" -> "S" [] c = "m" -> "M" [] c = "t" -> "T"
      [] OTHER -> c

\* _COLUMN_NORMALIZE_PATTERN: [\s\-/\\()\[\].,;:--]+
SeparatorChars == {" ", "-", "/", "\\", "(", ")", "[", "]", ".", ",", ";", ":"}

\* re.sub(pattern, '_', s): each maximal run of separators becomes one '_'
RECURSIVE sub_separators(_)
sub_separators(s) ==
    IF s = <<>> THEN <<>>
    ELSE IF Head(s) \in SeparatorChars
      THEN IF Len(s) > 1 /\ s[2] \in SeparatorChars
             THEN sub_separators(Tail(s))
             ELSE <<"_">> \o sub_separators(Tail(s))
    ELSE <<Head(s)>> \o sub_separators(Tail(s))

\* re.sub(r'_+', '_', s)
RECURSIVE collapse_underscores(_)
collapse_underscores(s) ==
    IF s = <<>> THEN <<>>
    ELSE IF Head(s) = "_" /\ Len(s) > 1 /\ s[2] = "_"
      THEN collapse_underscores(Tail(s))
    ELSE <<Head(s)>> \o collapse_underscores(Tail(s))

\* str.strip(chars)
RECURSIVE lstrip(_, _)
lstrip(s, chars) ==
    IF s # <<>> /\ Head(s) \in chars THEN lstrip(Tail(s), chars) ELSE s
RECURSIVE rstrip(_, _)
rstrip(s, chars) ==
    IF s # <<>> /\ s[Len(s)] \in chars
    THEN rstrip(SubSeq(s, 1, Len(s) - 1), chars) ELSE s
strip(s, chars) == rstrip(lstrip(s, chars), chars)

\* MappedXLSXImporter.parse.normalize_column_name
normalize_column_name(col_name) ==
    LET stripped   == strip(Chars(col_name), {" "})
        upper      == [i \in DOMAIN stripped |-> Upper(stripped[i])]
        normalized == sub_separators(upper)
    IN strip(collapse_underscores(normalized), {"_"})

\* ---- the mapping document
Column(col, is_id, is_description, node_type, display_name) ==
    [ col |-> col, is_id |-> is_id, is_description |-> is_description,
      node_type |-> node_type, display_name |-> display_name ]

Mapping(node_type, stratigraphic_type, display_name) ==
    [ column_mappings |-> <<
          Column("US", TRUE, FALSE, node_type, None),
          Column("DESCRIPTION", FALSE, TRUE, None, None),
          Column("MATERIAL_TYPE", FALSE, FALSE, None, display_name) >>,
      stratigraphic_type |-> stratigraphic_type ]

Mappings == { Mapping(None, None, None),
              Mapping(None, "SF", "Material"),
              Mapping("USVs", "SF", "Material") }

\* BaseImporter._get_id_column (mapping mode: id_column is not given)
get_id_column(mapping) ==
    LET cm == mapping.column_mappings
        ids == { i \in DOMAIN cm : cm[i].is_id }
    IN IF ids = {} THEN None
       ELSE cm[CHOOSE i \in ids : \A j \in ids : i <= j].col

\* BaseImporter._get_description_column
get_description_column(mapping) ==
    LET cm == mapping.column_mappings
        ds == { i \in DOMAIN cm : cm[i].is_description }
    IN IF ds = {} THEN None
       ELSE cm[CHOOSE i \in ds : \A j \in ds : i <= j].col

\* BaseImporter._get_node_type_from_id_column
get_node_type_from_id_column(mapping) ==
    LET id_column == get_id_column(mapping)
        cm == mapping.column_mappings
        cfg == { i \in DOMAIN cm : cm[i].col = id_column }
        node_type == IF cfg = {} THEN None ELSE cm[CHOOSE i \in cfg : TRUE].node_type
    IN IF id_column # None /\ node_type # None THEN node_type
       ELSE IF mapping.stratigraphic_type # None THEN mapping.stratigraphic_type
       ELSE "US"

\* utils.get_stratigraphic_node_class: the kind of the class returned
get_stratigraphic_node_class(stratigraphic_type) ==
    IF stratigraphic_type \in StratigraphicTypes THEN stratigraphic_type
    ELSE "StratigraphicNode"

\* ---- cell values: None is a null cell (NaN)
\* BaseImporter._is_invalid_id
is_invalid_id(value) ==
    \/ value = None
    \/ value \in {"", " "}
    \/ value \in {"nan", "null"}

\* BaseImporter._clean_value_for_ui
clean_value_for_ui(value) ==
    IF value = None THEN ""
    ELSE IF value = " " THEN ""
    ELSE IF value \in {"nan", "null"} THEN ""
    ELSE value

\* BaseImporter._find_node_by_name: index of the first node whose name or
\* original_name attribute is target_name, 0 when there is none
find_node_by_name(graph, target_name) ==
    LET hits == { i \in DOMAIN graph.nodes :
                    \/ graph.nodes[i].name = target_name
                    \/ graph.nodes[i].original_name = target_name }
    IN IF hits = {} THEN 0 ELSE CHOOSE i \in hits : \A j \in hits : i <= j

Warning(kind, what) == [ kind |-> kind, what |-> what ]

\* _create_property with the value of an existing property replaced whatever
\* the overwrite flag says
create_property_always_overwrites(st, overwrite, node_id, prop_name, prop_value) ==
    IF is_invalid_id(prop_value) THEN st
    ELSE IF clean_value_for_ui(prop_value) = "" \/ clean_value_for_ui(prop_name) = ""
      THEN st
    ELSE
      LET prop_id == node_id \o "_" \o prop_name
          edge_id == node_id \o "_has_property_" \o prop_id
      IN
      IF HasNode(st.graph, prop_id)
      THEN IF TRUE
           THEN [st EXCEPT
                   !.graph.nodes = [i \in DOMAIN @ |->
                        IF @[i].node_id = prop_id
                        THEN [@[i] EXCEPT !.value = prop_value] ELSE @[i]],
                   !.warnings = Append(@, Warning("updated-property", prop_id))]
           ELSE st
      ELSE
        LET prop_node == [NewNode(prop_id, prop_name, "PropertyNode")
                            EXCEPT !.value = prop_value,
                                   !.description = prop_value]
            g1 == add_node(st.graph, prop_node)
            err == add_edge_error(g1, StandardDatamodel, edge_id, node_id,
                                  prop_id, "has_property")
        IN IF edge_id \in EdgeIds(g1) THEN [st EXCEPT !.graph = g1]
           ELSE IF err # "ok" THEN [st EXCEPT !.graph = g1, !.err = err]
           ELSE [st EXCEPT !.graph =
                    add_edge(g1, NewEdge(edge_id, node_id, prop_id, "has_property"))]

\* BaseImporter._create_property; st = [graph, warnings, err]
create_property(st, overwrite, node_id, prop_name, prop_value) ==
    IF is_invalid_id(prop_value) THEN st
    ELSE IF clean_value_for_ui(prop_value) = "" \/ clean_value_for_ui(prop_name) = ""
      THEN st
    ELSE
      LET prop_id == node_id \o "_" \o prop_name
          edge_id == node_id \o "_has_property_" \o prop_id
      IN
      IF HasNode(st.graph, prop_id)
      THEN IF overwrite
           THEN [st EXCEPT
                   !.graph.nodes = [i \in DOMAIN @ |->
                        IF @[i].node_id = prop_id
                        THEN [@[i] EXCEPT !.value = prop_value] ELSE @[i]],
                   !.warnings = Append(@, Warning("updated-property", prop_id))]
           ELSE st
      ELSE
        LET prop_node == [NewNode(prop_id, prop_name, "PropertyNode")
                            EXCEPT !.value = prop_value,
                                   !.description = prop_value]
            g1 == add_node(st.graph, prop_node)
            err == add_edge_error(g1, StandardDatamodel, edge_id, node_id,
                                  prop_id, "has_property")
        IN IF edge_id \in EdgeIds(g1) THEN [st EXCEPT !.graph = g1]
           ELSE IF err # "ok" THEN [st EXCEPT !.graph = g1, !.err = err]
           ELSE [st EXCEPT !.graph =
                    add_edge(g1, NewEdge(edge_id, node_id, prop_id, "has_property"))]

\* BaseImporter._process_properties: the loop over column_mappings from
\* column i on; an exception ends the loop
RECURSIVE process_properties(_, _, _, _, _, _)
process_properties(st, mapping, overwrite, row_data, node_id, i) ==
    LET cm == mapping.column_mappings IN
    IF i > Len(cm) \/ st.err # "ok" THEN st
    ELSE
      LET cfg == cm[i]
          special == \/ cfg.col \in {get_id_column(mapping),
                                     get_description_column(mapping)}
                     \/ cfg.is_id \/ cfg.is_description
          prop_name == IF cfg.display_name # None THEN cfg.display_name ELSE cfg.col
          st1 == IF ~special /\ cfg.col \in DOMAIN row_data
                    /\ ~is_invalid_id(row_data[cfg.col])
                 THEN create_property(st, overwrite, node_id, prop_name,
                                      row_data[cfg.col])
                 ELSE st
      IN process_properties(st1, mapping, overwrite, row_data, node_id, i + 1)

\* BaseImporter._process_row_mapped, line 223:
\* hasattr(self, 'graph') and len(self.graph.nodes) > 0
is_enriching_existing(importer, graph) == Len(graph.nodes) > 0

\* BaseImporter._process_row_mapped; returns [graph, warnings, err, result],
\* result = "node" when a node is returned, "none" when None is returned
process_row_mapped(importer, graph, row_data, new_id) ==
    LET mapping     == importer.mapping
        id_column   == get_id_column(mapping)
        raw_id      == row_data[id_column]
        target_name == clean_value_for_ui(raw_id)
        st0         == [ graph |-> graph, warnings |-> importer.warnings,
                         err |-> "ok", result |-> "none" ]
        existing    == find_node_by_name(graph, target_name)
    IN
    IF target_name = ""
      THEN [st0 EXCEPT !.warnings = Append(@, Warning("invalid-id", ""))]
    ELSE IF existing # 0
      THEN [process_properties(st0, mapping, importer.overwrite, row_data,
                               graph.nodes[existing].node_id, 1)
              EXCEPT !.result = "node"]
    ELSE IF is_enriching_existing(importer, graph)
      THEN [st0 EXCEPT !.warnings = Append(@, Warning("not-found-skipped", target_name))]
    ELSE
      LET description_column == get_description_column(mapping)
          description == IF description_column # None
                            /\ description_column \in DOMAIN row_data
                         THEN row_data[description_column] ELSE ""
          strat_type == IF mapping.stratigraphic_type # None
                        THEN mapping.stratigraphic_type ELSE "US"
          new_node == [NewNode(new_id, target_name,
                               get_stratigraphic_node_class(strat_type))
                         EXCEPT !.description = description]
      IN IF add_node_error(graph, new_node) # "ok"
           THEN [st0 EXCEPT !.err = add_node_error(graph, new_node)]
           ELSE [process_properties([st0 EXCEPT !.graph = add_node(graph, new_node)],
                                    mapping, importer.overwrite, row_data, new_id, 1)
                   EXCEPT !.result = "node"]

\* BaseImporter.process_row: KeyError / ValueError before the mapped
\* processing; err # "ok" stands for a raised exception
process_row(importer, graph, row_data, new_id) ==
    LET id_column == get_id_column(importer.mapping)
        st0 == [ graph |-> graph, warnings |-> importer.warnings,
                 err |-> "ok", result |-> "none" ]
    IN IF id_column \notin DOMAIN row_data THEN [st0 EXCEPT !.err = "KeyError"]
       ELSE IF is_invalid_id(row_data[id_column]) THEN [st0 EXCEPT !.err = "ValueError"]
       ELSE process_row_mapped(importer, graph, row_data, new_id)

\* ---- the sheets and graphs the importer is run on
\* "Material" is an ID cell that repeats the display name of a property column
IdValues == {None, " ", "US001", "US002", "Material"}
PropertyValues == {None, "clay"}

SheetRow(id, material) ==
    [ US |-> id, DESCRIPTION |-> "layer", MATERIAL_TYPE |-> material ]

SheetRows == { SheetRow(id, m) : id \in IdValues, m \in PropertyValues }

Sheets == UNION { [1..n -> SheetRows] : n \in 0..MaxRows }

HeaderRows == { <<"US", "DESCRIPTION", "Material Type">>,
                <<" Us.", "m - t">>,
                <<"Notes", "Material Type">>,
                <<"Notes">> }

GraphUS001 ==
    [ nodes |-> << NewNode("n1", "US001", "US") >>, edges |-> <<>> ]

GraphRenamed ==
    [ nodes |-> << NewNode("n1", "US001", "US"),
                   [NewNode("n2", "US002bis", "US") EXCEPT !.original_name = "US002"] >>,
      edges |-> <<>> ]

GraphWithProperty ==
    [ nodes |-> << NewNode("n1", "US001", "US"),
                   [NewNode("n1_Material", "Material", "PropertyNode")
                      EXCEPT !.value = "sand", !.description = "sand"] >>,
      edges |-> << NewEdge("n1_has_property_n1_Material", "n1", "n1_Material",
                           "has_property") >> ]

\* graphs handed to the importer as existing_graph
ExistingGraphs == { EmptyGraph, GraphUS001, GraphRenamed, GraphWithProperty }

\* MappedXLSXImporter.__init__
NewImporter(mapping, overwrite, use_existing_graph, headers) ==
    [ mapping |-> mapping, overwrite |-> overwrite,
      use_existing_graph |-> use_existing_graph,
      headers |-> headers,
      warnings |-> <<>>,
      json_to_excel_mapping |-> {},
      df |-> <<>>, next_row |-> 1,
      total_rows |-> 0, successful_rows |-> 0,
      skipped_rows |-> 0, error_rows |-> 0,
      initial_graph |-> EmptyGraph ]

RECURSIVE SelectSeq2(_, _)
SelectSeq2(s, keep) ==
    IF s = <<>> THEN <<>>
    ELSE IF Head(s) \in keep THEN <<Head(s)>> \o SelectSeq2(Tail(s), keep)
    ELSE SelectSeq2(Tail(s), keep)

\* pd.notna with every cell taken as not null
notna_always(value) == TRUE

\* pd.notna / Series.notna: the cell is not null
notna(value) == value # None

\* rows of the sheet whose ID cell is not null: df[df[id_column_excel].notna()]
RECURSIVE dropna_id(_, _)
dropna_id(rows, id_column) ==
    IF rows = <<>> THEN <<>>
    ELSE IF notna(Head(rows)[id_column])
      THEN <<Head(rows)>> \o dropna_id(Tail(rows), id_column)
    ELSE dropna_id(Tail(rows), id_column)

\* the columns of column_maps, in order, as names
ColumnNames(mapping) ==
    [i \in DOMAIN mapping.column_mappings |-> mapping.column_mappings[i].col]

\* MappedXLSXImporter.parse, lines 163-225, without the test of line 224
\* that the ID column has a header
parse_fatal_error_id_unchecked(rows, column_maps, matched, id_column_json) ==
    IF rows = <<>> THEN "Excel file is empty"
    ELSE IF column_maps = <<>> THEN "No column mappings"
    ELSE IF matched = {} THEN "No columns could be matched"
    ELSE "ok"

\* MappedXLSXImporter.parse, lines 163-225: the ValueError raised before the
\* row loop, "ok" when none is
parse_fatal_error(rows, column_maps, matched, id_column_json) ==
    IF rows = <<>> THEN "Excel file is empty"
    ELSE IF column_maps = <<>> THEN "No column mappings"
    ELSE IF matched = {} THEN "No columns could be matched"
    ELSE IF id_column_json \notin matched THEN "ID column not found"
    ELSE "ok"

\* MappedXLSXImporter.parse up to the row loop: read, match the columns,
\* find the ID column, pre-filter the rows
ParseStart ==
    /\ tpc = "start"
    /\ LET column_maps == ColumnNames(tab.mapping)
           excel_columns_normalized ==
               { normalize_column_name(tab.headers[i]) : i \in DOMAIN tab.headers }
           matched == { c \in Range(column_maps) :
                          normalize_column_name(c) \in excel_columns_normalized }
           unmapped_json_cols == SelectSeq2(column_maps, Range(column_maps) \ matched)
           unmapped_warnings ==
               [i \in 1..(IF Len(unmapped_json_cols) < 5
                          THEN Len(unmapped_json_cols) ELSE 5) |->
                    Warning("column-not-found", unmapped_json_cols[i])]
           id_column_json == get_id_column(tab.mapping)
           fatal == parse_fatal_error(trows, column_maps, matched, id_column_json)
           warnings1 == IF fatal \in {"Excel file is empty", "No column mappings"}
                        THEN tab.warnings ELSE tab.warnings \o unmapped_warnings
       IN IF fatal # "ok"
          THEN /\ tab' = [tab EXCEPT
                            !.warnings = Append(warnings1, Warning("fatal", fatal))]
               /\ tpc' = "failed"
          ELSE /\ tab' = [tab EXCEPT
                            !.warnings = warnings1,
                            !.json_to_excel_mapping = matched,
                            !.df = dropna_id(trows, id_column_json),
                            !.total_rows = Len(dropna_id(trows, id_column_json)),
                            !.next_row = 1,
                            !.initial_graph = tgraph]
               /\ tpc' = "rows"
    /\ UNCHANGED <<tgraph, trows, firstRun, uuidCounter>>

\* MappedXLSXImporter.parse, lines 246-265: the body of the try of one
\* iteration; result "no-id" when the row is skipped at line 260
row_outcome(importer, graph, row, new_id) ==
    LET keys == { c \in importer.json_to_excel_mapping : notna(row[c]) }
        row_dict == [c \in keys |-> row[c]]
        id_column_json == get_id_column(importer.mapping)
    IN IF keys = {} \/ id_column_json \notin keys
       THEN [ graph |-> graph, warnings |-> importer.warnings, err |-> "ok",
              result |-> "no-id" ]
       ELSE process_row(importer, graph, row_dict, new_id)

\* the iteration of the row loop with a failing row left out of error_rows
ProcessRow_error_not_counted ==
    /\ tpc = "rows"
    /\ tab.next_row <= Len(tab.df)
    /\ LET row == tab.df[tab.next_row]
           new_id == "uuid" \o ToString(uuidCounter)
           r == row_outcome(tab, tgraph, row, new_id)
       IN IF r.result = "no-id"
          THEN /\ tab' = [tab EXCEPT !.skipped_rows = @ + 1, !.next_row = @ + 1]
               /\ UNCHANGED <<tgraph, uuidCounter>>
          ELSE /\ tgraph' = r.graph
               /\ uuidCounter' = IF HasNode(r.graph, new_id)
                                 THEN uuidCounter + 1 ELSE uuidCounter
               /\ tab' = IF r.err # "ok"
                         THEN [tab EXCEPT
                                 !.error_rows = @,
                                 !.warnings = Append(r.warnings, Warning("row-error", r.err)),
                                 !.next_row = @ + 1]
                         ELSE IF r.result = "node"
                         THEN [tab EXCEPT !.successful_rows = @ + 1,
                                          !.warnings = r.warnings,
                                          !.next_row = @ + 1]
                         ELSE [tab EXCEPT !.skipped_rows = @ + 1,
                                          !.warnings = r.warnings,
                                          !.next_row = @ + 1]
    /\ UNCHANGED <<trows, tpc, firstRun>>

\* MappedXLSXImporter.parse: one iteration of the loop over df.itertuples()
ProcessRow ==
    /\ tpc = "rows"
    /\ tab.next_row <= Len(tab.df)
    /\ LET row == tab.df[tab.next_row]
           new_id == "uuid" \o ToString(uuidCounter)
           r == row_outcome(tab, tgraph, row, new_id)
       IN IF r.result = "no-id"
          THEN /\ tab' = [tab EXCEPT !.skipped_rows = @ + 1, !.next_row = @ + 1]
               /\ UNCHANGED <<tgraph, uuidCounter>>
          ELSE /\ tgraph' = r.graph
               /\ uuidCounter' = IF HasNode(r.graph, new_id)
                                 THEN uuidCounter + 1 ELSE uuidCounter
               /\ tab' = IF r.err # "ok"
                         THEN [tab EXCEPT
                                 !.error_rows = @ + 1,
                                 !.warnings = Append(r.warnings, Warning("row-error", r.err)),
                                 !.next_row = @ + 1]
                         ELSE IF r.result = "node"
                         THEN [tab EXCEPT !.successful_rows = @ + 1,
                                          !.warnings = r.warnings,
                                          !.next_row = @ + 1]
                         ELSE [tab EXCEPT !.skipped_rows = @ + 1,
                                          !.warnings = r.warnings,
                                          !.next_row = @ + 1]
    /\ UNCHANGED <<trows, tpc, firstRun>>

\* MappedXLSXImporter.parse after the loop: the import summary
ParseFinish ==
    /\ tpc = "rows"
    /\ tab.next_row > Len(tab.df)
    /\ tab' = [tab EXCEPT !.warnings =
                  @ \o << Warning("summary", "Import summary"),
                          Warning("summary-rows", ToString(tab.successful_rows)),
                          Warning("summary-columns",
                                  ToString(Cardinality(tab.json_to_excel_mapping))) >>]
    /\ tpc' = "done"
    /\ UNCHANGED <<tgraph, trows, firstRun, uuidCounter>>

\* no run of the importer has ended yet
NoRun == [ done |-> FALSE, graph |-> EmptyGraph, warnings |-> <<>> ]

\* a second MappedXLSXImporter, with the same mapping and flags, is run on
\* the same sheet with the graph the first run left as existing_graph
RunAgain ==
    /\ tpc = "done"
    /\ ~ firstRun.done
    /\ firstRun' = [ done |-> TRUE, graph |-> tgraph, warnings |-> tab.warnings ]
    /\ tab' = NewImporter(tab.mapping, tab.overwrite, TRUE, tab.headers)
    /\ tpc' = "start"
    /\ UNCHANGED <<tgraph, trows, uuidCounter>>

(***************************************************************************)
(*                           GRAPHML IMPORTER                              *)
(***************************************************************************)

\* ---- the file: <key> declarations, <node> elements in document order
\* (a group is followed by the nodes nested in it), <edge> elements.
\* An element names the group it is nested in (parent); it carries EMID data
\* as a slipback wrote it or as the editor copied it.
NodeElement(id, shape, border, em_type, name, url, y, parent) ==
    [ id |-> id, foldertype |-> None, shape |-> shape, border |-> border,
      em_type |-> em_type, name |-> name, url |-> url, y |-> y,
      background |-> None, parent |-> parent, rows |-> <<>>, emid |-> None ]

GroupElement(id, name, background, y) ==
    [ NodeElement(id, None, None, None, name, "", y, None)
        EXCEPT !.foldertype = "group", !.background = background ]

SwimlaneElement(id, y, rows) ==
    [ NodeElement(id, None, None, None, "", "", y, None)
        EXCEPT !.foldertype = "swimlane", !.rows = rows ]

EdgeElement(id, source, target, style) ==
    [ id |-> id, source |-> source, target |-> target, style |-> style,
      emid |-> None ]

\* GraphMLImporter.__init__ followed by the first statements of parse():
\* build_key_mapping reads the <key> declarations of the file
build_key_mapping(file) == file.keys

\* the vocabulary of the graph-header label (estrai_stringa_e_vocabolario):
\* None = key absent
Vocabulary(ID, ORCID, description, embargo, license) ==
    [ ID |-> ID, graph_id |-> None, ORCID |-> ORCID, description |-> description,
      embargo |-> embargo, license |-> license ]

NoHeader == Vocabulary(None, None, None, None, None)

\* GraphMLImporter.extract_graph_id_and_code; the uuid4 of line 155 is a
\* value no later uuid4 equals
extract_graph_id_and_code(file) ==
    [ graph_id   |-> IF file.header.graph_id # None THEN file.header.graph_id
                     ELSE "uuid0",
      graph_code |-> IF file.header.ID \in {None, "", "site_id"} THEN "MISSINGCODE"
                     ELSE file.header.ID ]

\* Graph.__init__ and parse(), lines 177-189: the fields of self.graph
\* beside its nodes and edges
graph_fields(file) ==
    [ graph_id      |-> extract_graph_id_and_code(file).graph_id,
      graph_code    |-> extract_graph_id_and_code(file).graph_code,
      description   |-> None,
      embargo_until |-> None,
      license       |-> None ]

NewGraphMLImporter(file) ==
    [ key_map            |-> build_key_mapping(file),
      graph_fields       |-> graph_fields(file),
      id_mapping         |-> EmptyDict,
      duplicate_id_map   |-> EmptyDict,
      document_nodes_map |-> EmptyDict,
      graph              |-> EmptyGraph,
      log                |-> <<>>,
      err                |-> "ok" ]

\* GraphMLImporter.extract_custom_fields: the EMID of the element, None when
\* the key is not in key_map or the element has no such data
extract_custom_fields(importer, element, entity_type) ==
    IF <<entity_type, "EMID">> \in importer.key_map /\ element.emid # None
    THEN element.emid ELSE None

\* GraphMLImporter._check_node_type
check_node_type(node_element) ==
    IF node_element.foldertype = None THEN "node_simple"
    ELSE IF node_element.foldertype = "swimlane" THEN "node_swimlane"
    ELSE "node_group"

\* utils.convert_shape2type
convert_shape2type(yedtype, border_style) ==
    IF yedtype = "rectangle" THEN "US"
    ELSE IF yedtype = "parallelogram" THEN "USVs"
    ELSE IF yedtype = "ellipse" /\ border_style = "#31792D" THEN "serUSVn"
    ELSE IF yedtype = "ellipse" /\ border_style = "#248FE7" THEN "serUSVs"
    ELSE IF yedtype = "ellipse" /\ border_style = "#9B3333" THEN "serSU"
    ELSE IF yedtype = "hexagon" THEN "USVn"
    ELSE IF yedtype = "octagon" /\ border_style = "#D8BD30" THEN "SF"
    ELSE IF yedtype = "octagon" /\ border_style = "#B19F61" THEN "VSF"
    ELSE IF yedtype = "roundrectangle" THEN "USD"
    ELSE "unknown"

\* GraphMLImporter.EM_check_node_us
EM_check_node_us(node_element) ==
    node_element.shape \in {"rectangle", "parallelogram", "ellipse", "hexagon",
                            "octagon", "roundrectangle"}

\* GraphMLImporter.determine_group_node_type_by_color
determine_group_node_type_by_color(background_color) ==
    IF background_color = "#CCFFFF" THEN "ActivityNodeGroup"
    ELSE IF background_color = "#FFCC99" THEN "ParadataNodeGroup"
    ELSE IF background_color = "#99CC00" THEN "TimeBranchNodeGroup"
    ELSE "GroupNode"

\* a uuid4: st.ctr counts the values drawn so far
uuid4(st) == "uuid" \o ToString(st.ctr)

\* self.graph.add_node with a node of a known id stored all the same
graph_add_node_unchecked(st, node) ==
    [st EXCEPT !.imp.graph = [@ EXCEPT !.nodes = Append(@, node)]]

\* Graph.add_node as the importer calls it: an exception ends the parse
graph_add_node(st, node) ==
    IF add_node_error(st.imp.graph, node) # "ok"
    THEN [st EXCEPT !.imp.err = add_node_error(st.imp.graph, node)]
    ELSE [st EXCEPT !.imp.graph = add_node(@, node)]

\* str.strip() on the URLs that are drawn
strip_url(nodeurl) ==
    IF nodeurl = " Empty " THEN "Empty" ELSE nodeurl

\* process_node_element, lines 657 and 702: nodeurl and nodeurl.strip() != 'Empty'
has_valid_url(nodeurl) == nodeurl # "" /\ strip_url(nodeurl) # "Empty"

\* GraphMLImporter._create_link_node
create_link_node(st, source_node, url) ==
    LET link_node_id == source_node.node_id \o "_link"
        edge_id == source_node.node_id \o "_has_linked_resource_" \o link_node_id
        link_node == [NewNode(link_node_id, "Link to " \o source_node.name, "LinkNode")
                        EXCEPT !.url = url]
        st1 == graph_add_node(st, link_node)
        err == add_edge_error(st1.imp.graph, StandardDatamodel, edge_id,
                              source_node.node_id, link_node_id, "has_linked_resource")
    IN IF HasNode(st.imp.graph, link_node_id) THEN st
       ELSE IF st1.imp.err # "ok" THEN st1
       ELSE IF edge_id \in EdgeIds(st1.imp.graph) THEN st1
       ELSE IF err # "ok" THEN [st1 EXCEPT !.imp.err = err]
       ELSE [st1 EXCEPT !.imp.graph =
                add_edge(@, NewEdge(edge_id, source_node.node_id, link_node_id,
                                    "has_linked_resource"))]

\* a node as the importer builds it: attributes['original_id'] is set
ImportedNode(uuid_id, name, node_type, original_id) ==
    [NewNode(uuid_id, name, node_type) EXCEPT !.original_id = original_id]

\* process_node_element, lines 608-658, without the test of
\* document_nodes_map: every document element becomes a node
process_document_element_no_dedup(st, node_element, uuid_id) ==
    LET document_node == [ImportedNode(uuid_id, node_element.name, "DocumentNode",
                                       node_element.id)
                            EXCEPT !.url = node_element.url]
        st1 == graph_add_node(st, document_node)
        st2 == [st1 EXCEPT !.imp.document_nodes_map =
                               Put(@, node_element.name, uuid_id)]
    IN IF st1.imp.err # "ok" THEN st1
       ELSE IF has_valid_url(node_element.url)
         THEN create_link_node(st2, document_node, node_element.url)
       ELSE st2

\* process_node_element, lines 608-658: a document element
process_document_element(st, node_element, uuid_id) ==
    LET nodename == node_element.name
        document_node == [ImportedNode(uuid_id, nodename, "DocumentNode",
                                       node_element.id)
                            EXCEPT !.url = node_element.url]
        st1 == graph_add_node(st, document_node)
        st2 == [st1 EXCEPT !.imp.document_nodes_map = Put(@, nodename, uuid_id)]
    IN
    IF nodename \in DOMAIN st.imp.document_nodes_map
    THEN LET existing_uuid == st.imp.document_nodes_map[nodename]
             found == HasNode(st.imp.graph, existing_uuid)
             existing_original_id ==
                 IF found THEN find_node_by_id(st.imp.graph, existing_uuid).original_id
                 ELSE None
         IN [st EXCEPT !.imp.duplicate_id_map =
                Put(@, node_element.id,
                    IF existing_original_id # None THEN existing_original_id
                    ELSE existing_uuid)]
    ELSE IF st1.imp.err # "ok" THEN st1
    ELSE IF has_valid_url(node_element.url)
      THEN create_link_node(st2, document_node, node_element.url)
    ELSE st2

\* GraphMLImporter.process_node_element; st = [imp, ctr]
process_node_element(st, node_element) ==
    LET original_id == node_element.id
        EMID == extract_custom_fields(st.imp, node_element, "node")
        uuid_id == IF EMID # None THEN EMID ELSE uuid4(st)
        st0 == [st EXCEPT !.imp.id_mapping = Put(@, original_id, uuid_id),
                          !.ctr = IF EMID # None THEN @ ELSE @ + 1]
        simple(node_type, name) ==
            graph_add_node(st0, ImportedNode(uuid_id, name, node_type, original_id))
    IN
    IF original_id \in DOMAIN st.imp.id_mapping THEN st
    ELSE IF EM_check_node_us(node_element)
      THEN graph_add_node(st0,
             [ImportedNode(uuid_id, node_element.name,
                           get_stratigraphic_node_class(
                               convert_shape2type(node_element.shape, node_element.border)),
                           original_id)
                EXCEPT !.has_y_pos = TRUE, !.y_pos = node_element.y])
    ELSE IF node_element.em_type = "document"
      THEN process_document_element(st0, node_element, uuid_id)
    ELSE IF node_element.em_type = "property"
      THEN graph_add_node(st0,
             [ImportedNode(uuid_id, node_element.name, "PropertyNode", original_id)
                EXCEPT !.value = node_element.url, !.url = node_element.url])
    ELSE IF node_element.em_type = "extractor"
      THEN LET extractor_node == ImportedNode(uuid_id, node_element.name,
                                              "ExtractorNode", original_id)
               st1 == graph_add_node(st0, extractor_node)
           IN IF st1.imp.err # "ok" THEN st1
              ELSE IF has_valid_url(node_element.url)
                THEN create_link_node(st1, extractor_node, node_element.url)
              ELSE st1
    ELSE IF node_element.em_type = "combiner"
      THEN simple("CombinerNode", node_element.name)
    ELSE IF node_element.em_type = "continuity"
      THEN graph_add_node(st0,
             [ImportedNode(uuid_id, "continuity_node", "BR", original_id)
                EXCEPT !.has_y_pos = TRUE, !.y_pos = node_element.y])
    ELSE graph_add_node(st0, NewNode(uuid_id, node_element.name, "Node"))

\* handle_group_node, lines 896-926: the containment edge of one subnode
containment_edge(st, group_node_type, subnode_original_id, uuid_id) ==
    LET subnode_uuid == st.imp.id_mapping[subnode_original_id]
        edge_type == IF group_node_type = "ActivityNodeGroup" THEN "is_in_activity"
                     ELSE IF group_node_type = "ParadataNodeGroup"
                       THEN "is_in_paradata_nodegroup"
                     ELSE IF group_node_type = "TimeBranchNodeGroup"
                       THEN "is_in_timebranch"
                     ELSE "generic_connection"
        edge_id_prefix == IF edge_type = "generic_connection" THEN "grouped_in"
                          ELSE edge_type
        edge_id == subnode_uuid \o "_" \o edge_id_prefix \o "_" \o uuid_id
        err == add_edge_error(st.imp.graph, StandardDatamodel, edge_id,
                              subnode_uuid, uuid_id, edge_type)
    IN IF subnode_original_id \notin DOMAIN st.imp.id_mapping THEN st
       ELSE IF err # "ok"
         THEN [st EXCEPT !.imp.log =
                  Append(@, [msg |-> "Error creating edge", what |-> subnode_original_id,
                             error |-> err])]
       ELSE [st EXCEPT !.imp.graph =
                add_edge(@, NewEdge(edge_id, subnode_uuid, uuid_id, edge_type))]

\* GraphMLImporter.extract_epochs, lines 945-966: the rows from the i-th on;
\* every row draws a new uuid4
RECURSIVE extract_rows(_, _, _, _)
extract_rows(st, rows, i, y_max) ==
    IF i > Len(rows) \/ st.imp.err # "ok" THEN st
    ELSE LET original_id == rows[i].id
             uuid_id == uuid4(st)
             epoch_node == [ImportedNode(uuid_id, rows[i].name, "EpochNode", original_id)
                              EXCEPT !.min_y = y_max,
                                     !.max_y = y_max + rows[i].height]
             st0 == [st EXCEPT !.imp.id_mapping = Put(@, original_id, uuid_id),
                               !.ctr = @ + 1]
         IN extract_rows(graph_add_node(st0, epoch_node), rows, i + 1,
                         y_max + rows[i].height)

\* GraphMLImporter.extract_epochs
extract_epochs(st, node_element) ==
    extract_rows(st, node_element.rows, 1, node_element.y)

\* the <node> children of the <graph> child of a group element
subnodes_of(file, group_element) ==
    SelectSeq(file.nodes, LAMBDA e : e.parent = group_element.id)

RECURSIVE handle_group_node(_, _, _)
RECURSIVE handle_subnodes(_, _, _, _, _, _)

\* handle_group_node, lines 880-926: the loop over the subnodes from the
\* i-th on; a subnode is processed after its kind, a nested group by
\* handle_group_node itself, and its containment edge follows
handle_subnodes(st, file, subnodes, i, group_node_type, uuid_id) ==
    IF i > Len(subnodes) \/ st.imp.err # "ok" THEN st
    ELSE LET subnode_type == check_node_type(subnodes[i])
             st1 == IF subnode_type = "node_simple"
                      THEN process_node_element(st, subnodes[i])
                    ELSE IF subnode_type = "node_group"
                      THEN handle_group_node(st, file, subnodes[i])
                    ELSE extract_epochs(st, subnodes[i])
         IN IF st1.imp.err # "ok" THEN st1
            ELSE handle_subnodes(
                    containment_edge(st1, group_node_type, subnodes[i].id, uuid_id),
                    file, subnodes, i + 1, group_node_type, uuid_id)

\* GraphMLImporter.handle_group_node
handle_group_node(st, file, node_element) ==
    LET original_id == node_element.id
        EMID == extract_custom_fields(st.imp, node_element, "node")
        uuid_id == IF EMID # None THEN EMID ELSE uuid4(st)
        group_node_type == determine_group_node_type_by_color(node_element.background)
        group_node == [ImportedNode(uuid_id, node_element.name, group_node_type,
                                    original_id) EXCEPT !.y_pos = node_element.y]
        st0 == [st EXCEPT !.imp.id_mapping = Put(@, original_id, uuid_id),
                          !.ctr = IF EMID # None THEN @ ELSE @ + 1]
        st1 == graph_add_node(st0, group_node)
    IN IF st1.imp.err # "ok" THEN st1
       ELSE handle_subnodes(st1, file, subnodes_of(file, node_element), 1,
                            group_node_type, uuid_id)

\* GraphMLImporter.EM_extract_edge_type
EM_extract_edge_type(edge) ==
    IF edge.style = "line" THEN "is_after"
    ELSE IF edge.style = "double_line" THEN "has_same_time"
    ELSE IF edge.style = "dotted" THEN "changed_from"
    ELSE IF edge.style = "dashed" THEN "has_data_provenance"
    ELSE IF edge.style = "dashed_dotted" THEN "contrasts_with"
    ELSE "generic_connection"

\* the node_type string of a node class (nodes/*.py)
node_type_of(kind) ==
    IF kind = "PropertyNode" THEN "property"
    ELSE IF kind = "DocumentNode" THEN "document"
    ELSE IF kind = "ExtractorNode" THEN "extractor"
    ELSE IF kind = "CombinerNode" THEN "combiner"
    ELSE IF kind = "StratigraphicNode" THEN "unknown"
    ELSE kind

\* enhance_edge_type with the rules of generic_connection left out
enhance_edge_type_provenance_only(edge_type, source_kind, target_kind) ==
    LET stratigraphic_types == {"US", "USVs", "USVn", "VSF", "SF", "USD", "serSU",
                                "serUSVn", "serUSVs", "TSU", "SE", "BR", "unknown"}
        source_type == node_type_of(source_kind)
        target_type == node_type_of(target_kind)
    IN
    IF source_kind = None \/ target_kind = None THEN edge_type
    ELSE IF edge_type = "has_data_provenance" THEN
        IF source_type \in stratigraphic_types /\ target_type = "property"
          THEN "has_property"
        ELSE IF source_type \in stratigraphic_types /\ target_type = "ParadataNodeGroup"
          THEN "has_paradata_nodegroup"
        ELSE IF source_type = "ParadataNodeGroup" /\ target_type \in stratigraphic_types
          THEN "has_paradata_nodegroup"
        ELSE IF source_kind = "ExtractorNode" /\ target_kind = "DocumentNode"
          THEN "extracted_from"
        ELSE IF source_kind = "CombinerNode" /\ target_kind = "ExtractorNode"
          THEN "combines"
        ELSE IF source_type \in stratigraphic_types /\ target_kind = "DocumentNode"
          THEN "has_documentation"
        ELSE IF source_kind = "DocumentNode" /\ target_type \in stratigraphic_types
          THEN "is_documentation_of"
        ELSE edge_type
    ELSE edge_type

\* GraphMLImporter.enhance_edge_type; a kind of None is a node not found
enhance_edge_type(edge_type, source_kind, target_kind) ==
    LET stratigraphic_types == {"US", "USVs", "USVn", "VSF", "SF", "USD", "serSU",
                                "serUSVn", "serUSVs", "TSU", "SE", "BR", "unknown"}
        source_type == node_type_of(source_kind)
        target_type == node_type_of(target_kind)
    IN
    IF source_kind = None \/ target_kind = None THEN edge_type
    ELSE IF edge_type = "has_data_provenance" THEN
        IF source_type \in stratigraphic_types /\ target_type = "property"
          THEN "has_property"
        ELSE IF source_type \in stratigraphic_types /\ target_type = "ParadataNodeGroup"
          THEN "has_paradata_nodegroup"
        ELSE IF source_type = "ParadataNodeGroup" /\ target_type \in stratigraphic_types
          THEN "has_paradata_nodegroup"
        ELSE IF source_kind = "ExtractorNode" /\ target_kind = "DocumentNode"
          THEN "extracted_from"
        ELSE IF source_kind = "CombinerNode" /\ target_kind = "ExtractorNode"
          THEN "combines"
        ELSE IF source_type \in stratigraphic_types /\ target_kind = "DocumentNode"
          THEN "has_documentation"
        ELSE IF source_kind = "DocumentNode" /\ target_type \in stratigraphic_types
          THEN "is_documentation_of"
        ELSE edge_type
    ELSE IF edge_type = "generic_connection" THEN
        IF source_type \in stratigraphic_types /\ target_kind = "DocumentNode"
          THEN "has_documentation"
        ELSE IF source_kind = "DocumentNode" /\ target_type \in stratigraphic_types
          THEN "is_documentation_of"
        ELSE IF source_kind \in ParadataTypes /\ target_type = "ParadataNodeGroup"
          THEN "is_in_paradata_nodegroup"
        ELSE IF source_type = "ParadataNodeGroup" /\ target_type = "ActivityNodeGroup"
          THEN "has_paradata_nodegroup"
        ELSE edge_type
    ELSE edge_type

\* the raw types EM_extract_edge_type yields
RawEdgeTypes == {"is_after", "has_same_time", "changed_from",
                 "has_data_provenance", "contrasts_with", "generic_connection"}

\* the kinds of the endpoints; None is an endpoint find_node_by_id did not find
EndpointKinds == AllNodeTypes \cup {None}

\* parse_edges, lines 496-503: enhance_edge_type is called on the raw type
\* and the two nodes looked up
EnhanceEdgeType ==
    /\ enh.pc = "start"
    /\ enh' = [enh EXCEPT !.result = enhance_edge_type(enh.edge_type, enh.source,
                                                       enh.target),
                          !.pc = "done"]

\* parse_edges, lines 470-476, with the duplicate-id map not consulted
remap_duplicate_ignored(importer, original_id) == original_id

\* parse_edges, lines 470-476: an endpoint that is a dropped duplicate is
\* replaced by what the duplicate-id map holds for it
remap_duplicate(importer, original_id) ==
    IF original_id \in DOMAIN importer.duplicate_id_map
    THEN importer.duplicate_id_map[original_id] ELSE original_id

kind_of(graph, node_id) ==
    IF HasNode(graph, node_id) THEN find_node_by_id(graph, node_id).node_type
    ELSE None

\* GraphMLImporter.parse_edges for one <edge> element
parse_edge(st, edge) ==
    LET original_edge_id == edge.id
        base_edge_type == EM_extract_edge_type(edge)
        EMID == extract_custom_fields(st.imp, edge, "edge")
        original_source_id == remap_duplicate(st.imp, edge.source)
        original_target_id == remap_duplicate(st.imp, edge.target)
        mapped == /\ original_source_id \in DOMAIN st.imp.id_mapping
                  /\ original_target_id \in DOMAIN st.imp.id_mapping
        source_uuid == st.imp.id_mapping[original_source_id]
        target_uuid == st.imp.id_mapping[original_target_id]
        edge_uuid == IF EMID # None THEN EMID ELSE uuid4(st)
        enhanced_edge_type ==
            enhance_edge_type(base_edge_type, kind_of(st.imp.graph, source_uuid),
                              kind_of(st.imp.graph, target_uuid))
        err == add_edge_error(st.imp.graph, StandardDatamodel, edge_uuid,
                              source_uuid, target_uuid, enhanced_edge_type)
        st0 == [st EXCEPT !.ctr = IF EMID # None THEN @ ELSE @ + 1]
    IN
    IF ~mapped
    THEN [st EXCEPT !.imp.log =
             Append(@, [msg |-> "Could not create edge", what |-> original_edge_id,
                        error |-> "missing-uuid"])]
    ELSE IF err # "ok"
    THEN [st0 EXCEPT !.imp.log =
             Append(@, [msg |-> "Error adding edge", what |-> original_edge_id,
                        error |-> err])]
    ELSE [st0 EXCEPT !.imp.graph =
             add_edge(@, [NewEdge(edge_uuid, source_uuid, target_uuid,
                                  enhanced_edge_type)
                            EXCEPT !.original_edge_id = original_edge_id])]

\* connect_nodes_to_epochs, line 1193, with the bounds of the band included
in_epoch_band_closed(epoch, y_pos) ==
    epoch.min_y <= y_pos /\ y_pos <= epoch.max_y

\* connect_nodes_to_epochs, line 1193: epoch.min_y < y_pos < epoch.max_y
in_epoch_band(epoch, y_pos) ==
    epoch.min_y < y_pos /\ y_pos < epoch.max_y

\* connect_nodes_to_epochs, lines 1164-1176: continuity_connections.get(node_id),
\* the index of the BR source of the last edge that targets the node, 0 if none
continuity_connection(graph, node_id) ==
    LET hits == { i \in DOMAIN graph.edges :
                    /\ graph.edges[i].edge_target = node_id
                    /\ kind_of(graph, graph.edges[i].edge_source) = "BR" }
    IN IF hits = {} THEN 0
       ELSE CHOOSE k \in DOMAIN graph.nodes :
              graph.nodes[k].node_id =
                graph.edges[CHOOSE i \in hits : \A j \in hits : j <= i].edge_source

\* connect_nodes_to_epochs, lines 1192-1222, without the branch of the
\* continuity node (lines 1201-1212)
epoch_relation_continuity_ignored(graph0, node, epoch) ==
    IF in_epoch_band(epoch, node.y_pos) THEN "first"
    ELSE IF node.node_type \in {"US", "serSU"}
      THEN IF epoch.max_y < node.y_pos THEN "survive" ELSE "none"
    ELSE "none"

\* connect_nodes_to_epochs, lines 1192-1222, without the test of line 1214
\* that the node is a physical unit
epoch_relation_any_kind(graph0, node, epoch) ==
    LET c == continuity_connection(graph0, node.node_id)
    IN IF in_epoch_band(epoch, node.y_pos) THEN "first"
       ELSE IF c # 0 /\ graph0.nodes[c].has_y_pos
         THEN IF epoch.max_y < node.y_pos /\ epoch.max_y > graph0.nodes[c].y_pos
              THEN "survive" ELSE "none"
       ELSE IF epoch.max_y < node.y_pos THEN "survive" ELSE "none"

\* connect_nodes_to_epochs, lines 1192-1222: what the body of the inner loop
\* asks for node and epoch: "first", "survive" or "none"
epoch_relation(graph0, node, epoch) ==
    LET c == continuity_connection(graph0, node.node_id)
    IN IF in_epoch_band(epoch, node.y_pos) THEN "first"
       ELSE IF c # 0 /\ graph0.nodes[c].has_y_pos
         THEN IF epoch.max_y < node.y_pos /\ epoch.max_y > graph0.nodes[c].y_pos
              THEN "survive" ELSE "none"
       ELSE IF node.node_type \in {"US", "serSU"}
         THEN IF epoch.max_y < node.y_pos THEN "survive" ELSE "none"
       ELSE "none"

\* connect_nodes_to_epochs, lines 1179-1222: the two nested loops from node
\* n, epoch e on; graph0 is the graph before the loops (its nodes and the
\* continuity connections do not change), epochs the indices of the epochs
RECURSIVE connect_loop(_, _, _, _, _)
connect_loop(st, graph0, epochs, n, e) ==
    IF n > Len(graph0.nodes) THEN st
    ELSE IF ~graph0.nodes[n].has_y_pos \/ e > Len(epochs)
      THEN connect_loop(st, graph0, epochs, n + 1, 1)
    ELSE
      LET node == graph0.nodes[n]
          epoch == graph0.nodes[epochs[e]]
          rel == epoch_relation(graph0, node, epoch)
          edge_type == IF rel = "first" THEN "has_first_epoch" ELSE "survive_in_epoch"
          edge_id == node.node_id \o "_" \o epoch.node_id \o
                     (IF rel = "first" THEN "_first_epoch" ELSE "_survive")
          err == add_edge_error(st.imp.graph, StandardDatamodel, edge_id,
                                node.node_id, epoch.node_id, edge_type)
          st1 == IF rel = "none" THEN st
                 ELSE IF err # "ok"
                   THEN [st EXCEPT !.imp.log =
                            Append(@, [msg |-> "Error connecting node",
                                       what |-> node.node_id, error |-> err])]
                 ELSE [st EXCEPT !.imp.graph =
                          add_edge(@, NewEdge(edge_id, node.node_id, epoch.node_id,
                                              edge_type))]
      IN connect_loop(st1, graph0, epochs, n, e + 1)

\* indices of the nodes of a kind, in graph order
RECURSIVE indices_of_kind(_, _, _)
indices_of_kind(graph, kind, i) ==
    IF i > Len(graph.nodes) THEN <<>>
    ELSE (IF graph.nodes[i].node_type = kind THEN <<i>> ELSE <<>>)
           \o indices_of_kind(graph, kind, i + 1)

\* GraphMLImporter.connect_nodes_to_epochs
connect_nodes_to_epochs(st) ==
    LET epochs == indices_of_kind(st.imp.graph, "EpochNode", 1)
    IN IF epochs = <<>> THEN st
       ELSE connect_loop(st, st.imp.graph, epochs, 1, 1)

\* GraphMLImporter._ensure_custom_keys: the EMID (URI) keys are declared in
\* the tree when no key named EMID (URI) exists; self.key_map is left as it is
ensure_custom_keys(keys) ==
    LET with_emid == IF \E k \in keys : k[2] = "EMID" THEN keys
                     ELSE keys \cup { <<"node", "EMID">>, <<"edge", "EMID">> }
    IN IF \E k \in with_emid : k[2] = "URI" THEN with_emid
       ELSE with_emid \cup { <<"node", "URI">>, <<"edge", "URI">> }

\* GraphMLImporter._update_node_custom_fields / _update_edge_custom_fields:
\* the EMID data of the element is written when key_map knows the key
update_custom_fields(importer, element, entity_type, uuid_val) ==
    IF <<entity_type, "EMID">> \in importer.key_map
    THEN [element EXCEPT !.emid = uuid_val] ELSE element

\* the j-th element lies in the <graph> of the element group_id, directly
\* or in a group nested there
RECURSIVE is_nested_in(_, _, _)
is_nested_in(nodes, j, group_id) ==
    /\ nodes[j].parent # None
    /\ \/ nodes[j].parent = group_id
       \/ \E k \in DOMAIN nodes :
            nodes[k].id = nodes[j].parent /\ is_nested_in(nodes, k, group_id)

\* _update_node_custom_fields, line 367: node_elem.find('.//data[@key=...]'),
\* the index of the element that holds the first EMID data at or below the
\* i-th element, 0 if there is none
find_emid_data(nodes, i) ==
    LET nested == { j \in DOMAIN nodes :
                      is_nested_in(nodes, j, nodes[i].id) /\ nodes[j].emid # None }
    IN IF nodes[i].emid # None THEN i
       ELSE IF nested = {} THEN 0
       ELSE CHOOSE j \in nested : \A k \in nested : j <= k

\* GraphMLImporter._update_node_custom_fields: the data element found is
\* written, one is inserted in the element when none was found
update_node_custom_fields(importer, nodes, i, uuid_val) ==
    LET found == find_emid_data(nodes, i)
        written == IF found = 0 THEN i ELSE found
    IN [nodes EXCEPT ![written] =
           update_custom_fields(importer, nodes[written], "node", uuid_val)]

\* slipback_uuids_to_graphml, lines 247-257: the <node> elements from the
\* i-th on, in document order
RECURSIVE update_nodes(_, _, _)
update_nodes(importer, nodes, i) ==
    IF i > Len(nodes) THEN nodes
    ELSE IF nodes[i].id \in DOMAIN importer.id_mapping
      THEN update_nodes(importer,
                        update_node_custom_fields(importer, nodes, i,
                                                  importer.id_mapping[nodes[i].id]),
                        i + 1)
    ELSE update_nodes(importer, nodes, i + 1)

\* slipback_uuids_to_graphml, lines 261-272: the id of the first edge of the
\* graph that stems from the <edge> element, None if there is none
edge_uuid_of(graph, original_edge_id) ==
    LET hits == { i \in DOMAIN graph.edges :
                    graph.edges[i].original_edge_id = original_edge_id }
    IN IF hits = {} THEN None
       ELSE graph.edges[CHOOSE i \in hits : \A j \in hits : i <= j].edge_id

\* GraphMLImporter.slipback_uuids_to_graphml: the file as rewritten
slipback_uuids_to_graphml(importer, file) ==
    [ keys  |-> ensure_custom_keys(file.keys),
      header |-> file.header,
      nodes |-> update_nodes(importer, file.nodes, 1),
      edges |-> [i \in DOMAIN file.edges |->
                   IF edge_uuid_of(importer.graph, file.edges[i].id) # None
                   THEN update_custom_fields(importer, file.edges[i], "edge",
                                             edge_uuid_of(importer.graph, file.edges[i].id))
                   ELSE file.edges[i]] ]

\* Graph.connect_paradatagroup_propertynode_to_stratigraphic (specification
\* 4.5): pairs of edges k = (property in group, unit with that group), from
\* the k-th on; an edge that exists is not added again
RECURSIVE connect_paradata_pairs(_, _, _)
connect_paradata_pairs(graph, graph0, k) ==
    LET n == Len(graph0.edges)
        in_group == graph0.edges[((k - 1) \div n) + 1]
        has_group == graph0.edges[((k - 1) % n) + 1]
        edge_id == has_group.edge_source \o "_has_property_" \o in_group.edge_source
        wanted == /\ in_group.edge_type = "is_in_paradata_nodegroup"
                  /\ kind_of(graph0, in_group.edge_source) = "PropertyNode"
                  /\ has_group.edge_type = "has_paradata_nodegroup"
                  /\ has_group.edge_target = in_group.edge_target
                  /\ kind_of(graph0, has_group.edge_source) \in StratigraphicTypes
        exists == \E i \in DOMAIN graph.edges :
                     /\ graph.edges[i].edge_source = has_group.edge_source
                     /\ graph.edges[i].edge_target = in_group.edge_source
                     /\ graph.edges[i].edge_type = "has_property"
    IN IF k > n * n THEN graph
       ELSE IF wanted /\ ~exists
              /\ add_edge_error(graph, StandardDatamodel, edge_id, has_group.edge_source,
                                in_group.edge_source, "has_property") = "ok"
         THEN connect_paradata_pairs(
                 add_edge(graph, NewEdge(edge_id, has_group.edge_source,
                                         in_group.edge_source, "has_property")),
                 graph0, k + 1)
       ELSE connect_paradata_pairs(graph, graph0, k + 1)

connect_paradatagroup_propertynode_to_stratigraphic(graph) ==
    connect_paradata_pairs(graph, graph, 1)

\* the file is parsed at most this many times in a row
MaxParses == 3

\* no parse of the file has completed yet; file is the file the current
\* parse reads, same_file tells that the parse before read the same
NoParse ==
    [ done |-> FALSE, count |-> 0, id_mapping |-> EmptyDict, graph |-> EmptyGraph,
      file |-> [ keys |-> {}, header |-> NoHeader, nodes |-> <<>>, edges |-> <<>> ],
      same_file |-> FALSE ]

\* where parse() goes after the element at gi of the current pass
AfterNode ==
    IF gi < Len(gfile.nodes) THEN <<"nodes", gi + 1>>
    ELSE IF gfile.edges # <<>> THEN <<"edges", 1>>
    ELSE <<"post", 0>>

AfterEdge ==
    IF gi < Len(gfile.edges) THEN <<"edges", gi + 1>> ELSE <<"post", 0>>

\* the effect of one step of the node or edge pass: r = [imp, ctr]
PassStep(r, after) ==
    /\ imp' = r.imp
    /\ uuidCounter' = r.ctr
    /\ IF r.imp.err # "ok"
       THEN gpc' = "failed" /\ gi' = gi
       ELSE gpc' = after[1] /\ gi' = after[2]
    /\ UNCHANGED <<gfile, firstParse>>

ImporterState == [ imp |-> imp, ctr |-> uuidCounter ]

\* parse_nodes, lines 442-449: a simple node
ProcessNodeElement ==
    /\ gpc = "nodes"
    /\ check_node_type(gfile.nodes[gi]) = "node_simple"
    /\ PassStep(process_node_element(ImporterState, gfile.nodes[gi]), AfterNode)

\* parse_nodes, lines 442-449: a swimlane
ExtractEpochs ==
    /\ gpc = "nodes"
    /\ check_node_type(gfile.nodes[gi]) = "node_swimlane"
    /\ PassStep(extract_epochs(ImporterState, gfile.nodes[gi]), AfterNode)

\* parse_nodes, lines 442-449: a group with the nodes nested in it
HandleGroupNode ==
    /\ gpc = "nodes"
    /\ check_node_type(gfile.nodes[gi]) = "node_group"
    /\ PassStep(handle_group_node(ImporterState, gfile, gfile.nodes[gi]), AfterNode)

\* parse_edges: one <edge> element
ParseEdge ==
    /\ gpc = "edges"
    /\ PassStep(parse_edge(ImporterState, gfile.edges[gi]), AfterEdge)

\* parse(), lines 198-205: the passes over the completed graph
ConnectNodesToEpochs ==
    /\ gpc = "post"
    /\ LET g1 == connect_paradatagroup_propertynode_to_stratigraphic(imp.graph)
           r == connect_nodes_to_epochs([ imp |-> [imp EXCEPT !.graph = g1],
                                          ctr |-> uuidCounter ])
       IN imp' = r.imp
    /\ gpc' = "slipback"
    /\ UNCHANGED <<gfile, gi, firstParse, uuidCounter>>

\* parse(), line 223: slipback_uuids_to_graphml rewrites the file
Slipback ==
    /\ gpc = "slipback"
    /\ gfile' = slipback_uuids_to_graphml(imp, gfile)
    /\ gpc' = "done"
    /\ UNCHANGED <<imp, gi, firstParse, uuidCounter>>

\* a new GraphMLImporter parses the rewritten file
Reparse ==
    /\ gpc = "done"
    /\ firstParse.count < MaxParses - 1
    /\ firstParse' = [ done |-> TRUE, count |-> firstParse.count + 1,
                       id_mapping |-> imp.id_mapping, graph |-> imp.graph,
                       file |-> gfile, same_file |-> gfile = firstParse.file ]
    /\ imp' = NewGraphMLImporter(gfile)
    /\ gpc' = "nodes"
    /\ gi' = 1
    /\ UNCHANGED <<gfile, uuidCounter>>

\* ---- the files the importer is run on
MaxEpochRows == 2
MaxY == 3
MaxDocuments == 2
MaxEdgeElements == 2

RowHeights == {1, 2}

\* the rows of a swimlane with the given heights
SwimlaneRows(heights) ==
    [i \in DOMAIN heights |->
        [ id |-> "row" \o ToString(i), name |-> "Epoch" \o ToString(i),
          height |-> heights[i] ]]

US(id, shape, y) == NodeElement(id, shape, "#000000", None, id, "", y, None)

\* shape and border colour of the units drawn: a US, a USVs and a serSU
UnitShapes ==
    { <<"rectangle", "#000000">>, <<"parallelogram", "#000000">>,
      <<"ellipse", "#9B3333">> }

\* the graph-header label: without a vocabulary, or with all its entries
Headers ==
    { NoHeader,
      Vocabulary("VDL16", "0000-0002-1825-0097", "Villa", "2030-01-01", "CC-BY") }

\* a swimlane, one stratigraphic unit and possibly a continuity node drawn
\* below or above it and linked to it
EpochFiles ==
    { [ keys  |-> keys,
        header |-> header,
        nodes |-> << SwimlaneElement("sw", 0, SwimlaneRows(heights)),
                     NodeElement("n1", unit[1], unit[2], None, "n1", "", y1, None) >>
                  \o continuity[1],
        edges |-> continuity[2] ] :
        keys \in { {}, { <<"node", "EMID">> },
                   { <<"node", "EMID">>, <<"edge", "EMID">> } },
        header \in Headers,
        heights \in UNION { [1..k -> RowHeights] : k \in 1..MaxEpochRows },
        unit \in UnitShapes,
        y1 \in 0..MaxY,
        continuity \in { << <<>>, <<>> >> } \cup
            { << << NodeElement("n2", None, None, "continuity", "", "", y2, None) >>,
                 << EdgeElement("e1", "n2", "n1", "line") >> >> : y2 \in 0..MaxY } }

DocumentNames == {"D.01", "D.02"}

\* further document elements n3, n4, ... with the given names
Documents(names, parent) ==
    [i \in DOMAIN names |->
        NodeElement("n" \o ToString(i + 2), None, None, "document", names[i], "",
                    0, parent)]

EdgeCandidates ==
    << EdgeElement("e1", "n1", "n3", "dashed"),
       EdgeElement("e2", "n3", "n1", "dashed"),
       EdgeElement("e3", "g1", "n1", "dashed"),
       EdgeElement("e4", "n1", "g1", "dashed"),
       EdgeElement("e5", "n1", "n2", "line"),
       EdgeElement("e6", "n1", "p1", "dashed"),
       EdgeElement("e7", "n1", "n4", "dashed") >>

\* the candidates chosen, in document order
EdgeList(chosen) ==
    SelectSeq2(EdgeCandidates, { EdgeCandidates[i] : i \in chosen })

\* the url data of the document n2: absent, the word Empty (bare or with
\* blanks around it), a path
DocumentUrls == {"", "Empty", " Empty ", "doc.pdf"}

\* the keys the file declares and the EMID data the property p1 carries
DeclaredAndStored ==
    { << {}, None >>,
      << { <<"node", "EMID">>, <<"edge", "EMID">> }, None >>,
      << { <<"node", "EMID">>, <<"edge", "EMID">> }, "emid-p1" >> }

\* a swimlane of one row, a unit, a document, a paradata group holding a
\* property, and further documents (in the group or beside it) whose names
\* may repeat; the property may carry the EMID of an earlier slipback, from
\* before the group was drawn around it
ParadataFiles ==
    { [ keys  |-> declared[1],
        header |-> NoHeader,
        nodes |-> << SwimlaneElement("sw", 0, SwimlaneRows(<<2>>)),
                     US("n1", "rectangle", 1),
                     NodeElement("n2", None, None, "document", "D.01", url, 1, None),
                     GroupElement("g1", "PD01", "#FFCC99", 0),
                     [ NodeElement("p1", None, None, "property", "material", "clay",
                                   0, "g1") EXCEPT !.emid = declared[2] ] >>
                  \o Documents(names, IF grouped THEN "g1" ELSE None),
        edges |-> EdgeList(chosen) ] :
        declared \in DeclaredAndStored,
        url \in DocumentUrls,
        names \in UNION { [1..k -> DocumentNames] : k \in 0..MaxDocuments },
        grouped \in BOOLEAN,
        chosen \in { c \in SUBSET DOMAIN EdgeCandidates :
                        Cardinality(c) <= MaxEdgeElements } }

NestedEdgeCandidates ==
    << EdgeElement("e1", "n1", "g1", "dashed"),
       EdgeElement("e2", "n1", "g2", "dashed"),
       EdgeElement("e3", "n1", "p1", "dashed") >>

\* the background colours of an activity group and of a paradata group
GroupBackgrounds == {"#CCFFFF", "#FFCC99"}

\* a swimlane of one row, a unit, and a group g1 that holds the paradata
\* group g2, which holds a property; no element carries EMID data yet
NestedFiles ==
    { [ keys  |-> keys,
        header |-> NoHeader,
        nodes |-> << SwimlaneElement("sw", 0, SwimlaneRows(<<2>>)),
                     US("n1", "rectangle", 1),
                     GroupElement("g1", "A01", outer, 0),
                     [ GroupElement("g2", "PD01", "#FFCC99", 0)
                         EXCEPT !.parent = "g1" ],
                     NodeElement("p1", None, None, "property", "material", "clay",
                                 0, "g2") >>,
        edges |-> SelectSeq2(NestedEdgeCandidates,
                             { NestedEdgeCandidates[i] : i \in chosen }) ] :
        keys \in { {}, { <<"node", "EMID">>, <<"edge", "EMID">> } },
        outer \in GroupBackgrounds,
        chosen \in { c \in SUBSET DOMAIN NestedEdgeCandidates :
                        Cardinality(c) <= MaxEdgeElements } }

\* the element pasted into a file whose unit n1 and document n2 carry the
\* EMID data of a slipback: a copy of the unit, a copy of the document, the
\* copy of the document under another name; the editor gives the copy a new
\* id and copies the data (pasted), or the copy was drawn anew (None)
CopiedElements ==
    { [ US("n5", "rectangle", 1) EXCEPT !.name = "n1", !.emid = emid ] :
        emid \in {"emid-n1", None} }
    \cup
    { [ NodeElement("n3", None, None, "document", name, "", 1, None)
          EXCEPT !.emid = emid ] :
        name \in DocumentNames, emid \in {"emid-n2", None} }

CopiedEdgeCandidates ==
    << EdgeElement("e1", "n1", "n2", "dashed"),
       EdgeElement("e2", "n1", "n3", "dashed"),
       EdgeElement("e3", "n5", "n1", "line") >>

CopiedFiles ==
    { [ keys  |-> { <<"node", "EMID">>, <<"edge", "EMID">> },
        header |-> NoHeader,
        nodes |-> << SwimlaneElement("sw", 0, SwimlaneRows(<<2>>)),
                     [ US("n1", "rectangle", 1) EXCEPT !.emid = "emid-n1" ],
                     [ NodeElement("n2", None, None, "document", "D.01", "", 1, None)
                         EXCEPT !.emid = "emid-n2" ],
                     copy >>,
        edges |-> SelectSeq2(CopiedEdgeCandidates,
                             { CopiedEdgeCandidates[i] : i \in chosen }) ] :
        copy \in CopiedElements,
        chosen \in { c \in SUBSET DOMAIN CopiedEdgeCandidates :
                        Cardinality(c) <= MaxEdgeElements } }

GraphMLFiles == EpochFiles \cup ParadataFiles \cup NestedFiles \cup CopiedFiles

(***************************************************************************)
(*                              UTILITIES                                  *)
(***************************************************************************)

\* ---- names and graph codes as sequences of characters
MaxNameLen == 3
MaxCodeLen == 2

\* the default separator of manage_id_prefix
Separator == "."

NameChars == {"U", Separator, " "}

\* graph_code=None
NoGraphCode == << None >>

Strings(max_len) == UNION { [1..k -> NameChars] : k \in 0..max_len }

\* separator in name
contains(name, separator) == \E i \in DOMAIN name : name[i] = separator

\* name.split(separator, 1)[1]: what follows the first separator
after_first(name, separator) ==
    LET first == CHOOSE i \in DOMAIN name :
                    /\ name[i] = separator
                    /\ \A j \in 1..(i - 1) : name[j] # separator
    IN SubSeq(name, first + 1, Len(name))

\* not s or s.strip() == ''
is_blank(s) == s = NoGraphCode \/ strip(s, {" "}) = <<>>

\* manage_id_prefix with action='remove'
remove_prefix(name, separator) ==
    IF contains(name, separator) THEN after_first(name, separator) ELSE name

\* utils.manage_id_prefix
manage_id_prefix(name, graph_code, action, separator) ==
    IF action \notin {"add", "remove"} THEN << "ValueError" >>
    ELSE IF is_blank(name) THEN name
    ELSE IF action = "remove" THEN remove_prefix(name, separator)
    ELSE IF is_blank(graph_code) THEN name
    ELSE IF contains(name, separator)
      THEN graph_code \o <<separator>> \o remove_prefix(name, separator)
    ELSE graph_code \o <<separator>> \o name

\* utils.get_base_name
get_base_name(name, separator) ==
    manage_id_prefix(name, NoGraphCode, "remove", separator)

\* a caller prefixes a name with a graph code and later strips the prefix
AddPrefix ==
    /\ pfx.pc = "start"
    /\ pfx' = [pfx EXCEPT !.added = manage_id_prefix(pfx.name, pfx.code, "add",
                                                     Separator),
                          !.pc = "added"]

RemovePrefix ==
    /\ pfx.pc = "added"
    /\ pfx' = [pfx EXCEPT !.removed = manage_id_prefix(pfx.added, NoGraphCode,
                                                       "remove", Separator),
                          !.pc = "removed"]

\* ---- mapping registry: the directories of one mapping type ('generic')
MaxAdds == 3

\* os.path.dirname(__file__)/generic
BuiltinDirectory == "builtin"

\* the directories that exist on disk; "missing" does not
ExistingDirectories == {BuiltinDirectory, "appdir", "userdir"}
Directories == ExistingDirectories \cup {"missing"}

MappingFiles == {"m.json", "n.json"}

\* what a directory may hold
DirectoryContents == { {}, {"m.json"}, {"m.json", "n.json"} }

\* names find_mapping_file is called with
MappingNames == {"m", "m.json", "n", "absent"}

\* MappingRegistry.__init__ and _initialize_builtin_paths; adds is the list
\* of the add_mapping_directory calls that succeeded, in call order
NewMappingRegistry ==
    [ directories |-> << BuiltinDirectory >>, adds |-> <<>>, err |-> "ok" ]

\* adds: the calls of add_mapping_directory made before the find
NoFind == [ called |-> FALSE, name |-> "", path |-> None, adds |-> <<>> ]

\* os.path.exists(directory)
directory_exists(directory) == directory \in ExistingDirectories

\* add_mapping_directory that appends whatever the priority
add_mapping_directory_appending(registry, directory, priority) ==
    IF ~directory_exists(directory)
    THEN [registry EXCEPT !.err = "ValueError"]
    ELSE [registry EXCEPT
            !.directories = Append(@, directory),
            !.adds = Append(@, [directory |-> directory, priority |-> priority]),
            !.err = "ok"]

\* MappingRegistry.add_mapping_directory
add_mapping_directory(registry, directory, priority) ==
    IF ~directory_exists(directory)
    THEN [registry EXCEPT !.err = "ValueError"]
    ELSE [registry EXCEPT
            !.directories = IF priority = "high" THEN <<directory>> \o @
                            ELSE Append(@, directory),
            !.adds = Append(@, [directory |-> directory, priority |-> priority]),
            !.err = "ok"]

\* mapping_name.endswith('.json')
endswith_json(mapping_name) == mapping_name \in MappingFiles

\* os.path.join(directory, mapping_name)
path_join(directory, mapping_name) == directory \o "/" \o mapping_name

\* os.path.exists(os.path.join(directory, mapping_name))
file_exists(files, directory, mapping_name) ==
    directory \in DOMAIN files /\ mapping_name \in files[directory]

\* MappingRegistry.find_mapping_file, the loop from directory i on
RECURSIVE find_in(_, _, _, _)
find_in(directories, files, mapping_name, i) ==
    IF i > Len(directories) THEN None
    ELSE IF file_exists(files, directories[i], mapping_name)
      THEN path_join(directories[i], mapping_name)
    ELSE find_in(directories, files, mapping_name, i + 1)

\* MappingRegistry.find_mapping_file
find_mapping_file(registry, files, mapping_name) ==
    LET name == IF ~endswith_json(mapping_name) THEN mapping_name \o ".json"
                ELSE mapping_name
    IN find_in(registry.directories, files, name, 1)

AddMappingDirectory ==
    /\ Len(reg.adds) < MaxAdds
    /\ \E directory \in Directories, priority \in {"high", "low"} :
          reg' = add_mapping_directory(reg, directory, priority)
    /\ UNCHANGED <<disk, lastFind>>

FindMappingFile ==
    /\ \E mapping_name \in MappingNames :
          lastFind' = [ called |-> TRUE, name |-> mapping_name,
                        path |-> find_mapping_file(reg, disk, mapping_name),
                        adds |-> reg.adds ]
    /\ UNCHANGED <<reg, disk>>

(***************************************************************************)
(*                          SPECIFICATIONS                                 *)
(***************************************************************************)

\* values of the variables of a component that is not running
DatamodelIdle ==
    /\ dmFile = StandardEdgeTypes
    /\ dmEdits = 0
    /\ globalDM = StandardDatamodel
    /\ dmInstance = 1
    /\ edgeModule = [ imported |-> TRUE, instance |-> 1,
                      connections_datamodel |-> StandardDatamodel,
                      EDGE_TYPES |-> build_legacy_edge_types(StandardDatamodel) ]
    /\ lastEdge = NoEdge

TabularIdle ==
    /\ tab = NewImporter(Mapping(None, None, None), FALSE, FALSE, <<>>)
    /\ tgraph = EmptyGraph
    /\ trows = <<>>
    /\ tpc = "idle"
    /\ firstRun = NoRun

GraphMLIdle ==
    /\ gfile = [ keys |-> {}, header |-> NoHeader, nodes |-> <<>>, edges |-> <<>> ]
    /\ imp = NewGraphMLImporter(gfile)
    /\ gpc = "idle"
    /\ gi = 0
    /\ firstParse = NoParse

PrefixIdle ==
    pfx = [ name |-> <<>>, code |-> NoGraphCode, added |-> <<>>,
            removed |-> <<>>, pc |-> "idle" ]

RegistryIdle ==
    /\ reg = NewMappingRegistry
    /\ disk = [d \in ExistingDirectories |-> {}]
    /\ lastFind = NoFind

EnhancerIdle ==
    enh = [ edge_type |-> None, source |-> None, target |-> None,
            result |-> None, pc |-> "idle" ]

UtilIdle == PrefixIdle /\ RegistryIdle /\ EnhancerIdle

\* ---- connections datamodel
InitDatamodel ==
    /\ dmFile \in DatamodelFiles
    /\ dmEdits = 0
    /\ globalDM = NoDM
    /\ dmInstance = 0
    /\ edgeModule = NotImported
    /\ lastEdge = NoEdge
    /\ TabularIdle
    /\ GraphMLIdle
    /\ UtilIdle
    /\ uuidCounter = 1

NextDatamodel ==
    \/ GetConnectionsDatamodel /\ UNCHANGED <<tabVars, gmlVars, utilVars, uuidCounter>>
    \/ ReloadConnectionsDatamodel /\ UNCHANGED <<tabVars, gmlVars, utilVars, uuidCounter>>
    \/ EditDatamodelFile /\ UNCHANGED <<tabVars, gmlVars, utilVars, uuidCounter>>
    \/ ImportEdgeModule /\ UNCHANGED <<tabVars, gmlVars, utilVars, uuidCounter>>
    \/ ConstructEdge /\ UNCHANGED <<tabVars, gmlVars, utilVars, uuidCounter>>

\* ---- tabular importer
InitTabular ==
    /\ DatamodelIdle
    /\ trows \in Sheets
    /\ \E mapping \in Mappings, overwrite \in BOOLEAN, headers \in HeaderRows :
         \/ /\ tgraph = EmptyGraph        \* existing_graph=None: Graph("temp_graph")
            /\ tab = NewImporter(mapping, overwrite, FALSE, headers)
         \/ /\ tgraph \in ExistingGraphs
            /\ tab = NewImporter(mapping, overwrite, TRUE, headers)
    /\ tpc = "start"
    /\ firstRun = NoRun
    /\ GraphMLIdle
    /\ UtilIdle
    /\ uuidCounter = 1

NextTabular ==
    \/ ParseStart /\ UNCHANGED <<dmVars, gmlVars, utilVars>>
    \/ ProcessRow /\ UNCHANGED <<dmVars, gmlVars, utilVars>>
    \/ ParseFinish /\ UNCHANGED <<dmVars, gmlVars, utilVars>>
    \/ RunAgain /\ UNCHANGED <<dmVars, gmlVars, utilVars>>

SpecDatamodel == InitDatamodel /\ [][NextDatamodel]_vars

SpecTabular == InitTabular /\ [][NextTabular]_vars

\* ---- GraphML importer: a first parse of a file, then a parse of the file
\* the first one rewrote
InitGraphML ==
    /\ DatamodelIdle
    /\ TabularIdle
    /\ gfile \in GraphMLFiles
    /\ imp = NewGraphMLImporter(gfile)
    /\ gpc = "nodes"
    /\ gi = 1
    /\ firstParse = [NoParse EXCEPT !.file = gfile]
    /\ UtilIdle
    /\ uuidCounter = 1

NextGraphML ==
    \/ ProcessNodeElement /\ UNCHANGED <<dmVars, tabVars, utilVars>>
    \/ ExtractEpochs /\ UNCHANGED <<dmVars, tabVars, utilVars>>
    \/ HandleGroupNode /\ UNCHANGED <<dmVars, tabVars, utilVars>>
    \/ ParseEdge /\ UNCHANGED <<dmVars, tabVars, utilVars>>
    \/ ConnectNodesToEpochs /\ UNCHANGED <<dmVars, tabVars, utilVars>>
    \/ Slipback /\ UNCHANGED <<dmVars, tabVars, utilVars>>
    \/ Reparse /\ UNCHANGED <<dmVars, tabVars, utilVars>>

SpecGraphML == InitGraphML /\ [][NextGraphML]_vars

\* ---- name prefixes
InitPrefix ==
    /\ DatamodelIdle
    /\ TabularIdle
    /\ GraphMLIdle
    /\ RegistryIdle
    /\ EnhancerIdle
    /\ \E name \in Strings(MaxNameLen),
          code \in Strings(MaxCodeLen) \cup {NoGraphCode} :
          pfx = [ name |-> name, code |-> code, added |-> <<>>, removed |-> <<>>,
                  pc |-> "start" ]
    /\ uuidCounter = 1

NextPrefix ==
    \/ AddPrefix /\ UNCHANGED <<dmVars, tabVars, gmlVars, regVars, enh, uuidCounter>>
    \/ RemovePrefix /\ UNCHANGED <<dmVars, tabVars, gmlVars, regVars, enh, uuidCounter>>

SpecPrefix == InitPrefix /\ [][NextPrefix]_vars

\* ---- mapping registry
InitRegistry ==
    /\ DatamodelIdle
    /\ TabularIdle
    /\ GraphMLIdle
    /\ PrefixIdle
    /\ EnhancerIdle
    /\ reg = NewMappingRegistry
    /\ disk \in [ExistingDirectories -> DirectoryContents]
    /\ lastFind = NoFind
    /\ uuidCounter = 1

NextRegistry ==
    \/ AddMappingDirectory /\ UNCHANGED <<dmVars, tabVars, gmlVars, pfx, enh, uuidCounter>>
    \/ FindMappingFile /\ UNCHANGED <<dmVars, tabVars, gmlVars, pfx, enh, uuidCounter>>

SpecRegistry == InitRegistry /\ [][NextRegistry]_vars

\* ---- edge-type enhancer: one call on a raw type and two endpoints
InitEnhancer ==
    /\ DatamodelIdle
    /\ TabularIdle
    /\ GraphMLIdle
    /\ PrefixIdle
    /\ RegistryIdle
    /\ \E edge_type \in RawEdgeTypes, source \in EndpointKinds,
          target \in EndpointKinds :
          enh = [ edge_type |-> edge_type, source |-> source, target |-> target,
                  result |-> None, pc |-> "start" ]
    /\ uuidCounter = 1

NextEnhancer ==
    \/ EnhanceEdgeType /\ UNCHANGED <<dmVars, tabVars, gmlVars, pfx, regVars, uuidCounter>>

SpecEnhancer == InitEnhancer /\ [][NextEnhancer]_vars

(***************************************************************************)
(*              PROPERTIES OF THE CONNECTIONS DATAMODEL                    *)
(***************************************************************************)

\* the file gives some entry a reverse name that is the name of an entry
reverse_name_collides(edge_types) ==
    \E i, j \in DOMAIN edge_types :
        /\ edge_types[i].reverse # None
        /\ edge_types[i].reverse = edge_types[j].name

\* the expanded lookup holds the canonical definition of every entry of the
\* file and the synthesized reverse of every non-symmetric one
lookup_complete(dm) ==
    \A i \in DOMAIN dm.canonical_edges :
        LET edge_def == dm.canonical_edges[i] IN
        /\ dm.expanded_edges[edge_def.name].is_canonical
        /\ edge_def.reverse # None =>
              ~ dm.expanded_edges[edge_def.reverse].is_canonical

\* C7: in every loaded datamodel, for every non-symmetric edge type T of the
\* expanded lookup the reverse of the reverse of T is T, the allowed sources
\* of T are the allowed targets of its reverse and the allowed targets of T
\* are the allowed sources of its reverse; for a symmetric type the reverse
\* is none.
C7_ReverseIsInvolution ==
    globalDM.loaded =>
      \A T \in DOMAIN globalDM.expanded_edges :
        IF is_symmetric(globalDM, T)
        THEN get_reverse_name(globalDM, T) = None
        ELSE LET R == get_reverse_name(globalDM, T) IN
             /\ get_reverse_name(globalDM, R) = T
             /\ get_allowed_sources(globalDM, T) = get_allowed_targets(globalDM, R)
             /\ get_allowed_targets(globalDM, T) = get_allowed_sources(globalDM, R)

\* C8: a file in which the reverse name synthesized for an entry equals the
\* name of a canonical entry is never loaded (the load fails with
\* duplicate-reverse-name), so every datamodel that is loaded has an expanded
\* lookup in which no entry has replaced another.
C8_CollidingFileIsRejected ==
    globalDM.loaded =>
      /\ ~ reverse_name_collides(globalDM.canonical_edges)
      /\ lookup_complete(globalDM)

(***************************************************************************)
(*                PROPERTIES OF THE TABULAR IMPORTER                       *)
(***************************************************************************)

\* the ID values of the rows that reach the row loop
row_ids(importer) ==
    [i \in DOMAIN importer.df |->
        clean_value_for_ui(importer.df[i][get_id_column(importer.mapping)])]

stratigraphic_nodes(graph) ==
    { i \in DOMAIN graph.nodes : graph.nodes[i].node_type \in StratigraphicTypes }

skipped_as_not_found(importer) ==
    { i \in DOMAIN importer.warnings :
        importer.warnings[i].kind = "not-found-skipped" }

\* the import ran without an existing graph, over rows with valid and
\* pairwise distinct IDs
fresh_import_of_distinct_ids ==
    /\ tpc = "done"
    /\ ~ tab.use_existing_graph
    /\ tab.initial_graph = EmptyGraph
    /\ \A i \in DOMAIN tab.df : row_ids(tab)[i] # ""
    /\ \A i, j \in DOMAIN tab.df : row_ids(tab)[i] = row_ids(tab)[j] => i = j

\* C1: when the tabular importer has run on a fresh empty graph over N rows
\* with N distinct valid IDs, the graph holds N stratigraphic nodes and no
\* row was skipped as "not found in existing graph".
C1_FreshImportCreatesEveryRow ==
    fresh_import_of_distinct_ids =>
      /\ Cardinality(stratigraphic_nodes(tgraph)) = Len(tab.df)
      /\ skipped_as_not_found(tab) = {}

\* the row the loop is at has an ID that is the name of no node of the graph
row_names_no_node ==
    /\ row_ids(tab)[tab.next_row] # ""
    /\ \A i \in DOMAIN tgraph.nodes :
          tgraph.nodes[i].name # row_ids(tab)[tab.next_row]

\* nodes and edges of the graph after the step that are not those of the
\* graph before it
changed_nodes == { i \in DOMAIN tgraph'.nodes :
                     i \notin DOMAIN tgraph.nodes \/ tgraph'.nodes[i] # tgraph.nodes[i] }
new_edges == { i \in DOMAIN tgraph'.edges : i \notin DOMAIN tgraph.edges }

\* the step touched nothing but properties of the node the row names
only_properties_of_named_node ==
    LET named == { tgraph.nodes[i].node_id : i \in
                     { k \in DOMAIN tgraph.nodes :
                         tgraph.nodes[k].name = row_ids(tab)[tab.next_row] } }
    IN /\ \A i \in changed_nodes :
             /\ tgraph'.nodes[i].node_type = "PropertyNode"
             /\ \E n \in named, c \in Range(tab.mapping.column_mappings) :
                   tgraph'.nodes[i].node_id \in
                      { n \o "_" \o c.col, n \o "_" \o c.display_name }
       /\ \A i \in new_edges :
             /\ tgraph'.edges[i].edge_type = "has_property"
             /\ tgraph'.edges[i].edge_source \in named

\* C3: in enrichment mode (the importer was given an existing graph) the
\* processing of a row whose ID is the name of no node leaves the graph
\* unchanged and records exactly one warning; the processing of a row whose
\* ID is the name of a node touches only properties of that node.
C3_EnrichmentSkipsUnknownIds ==
    [][ ( /\ tpc = "rows"
          /\ tab.use_existing_graph
          /\ tab.next_row <= Len(tab.df)
          /\ tab'.next_row = tab.next_row + 1
          /\ row_ids(tab)[tab.next_row] # "" )
        => IF row_names_no_node
           THEN /\ tgraph' = tgraph
                /\ Len(tab'.warnings) = Len(tab.warnings) + 1
           ELSE only_properties_of_named_node ]_vars

(***************************************************************************)
(*                PROPERTIES OF THE GRAPHML IMPORTER                       *)
(***************************************************************************)

\* the node and edge passes of the current parse are over
passes_done == gpc \in {"post", "slipback", "done"}

\* a document element of the file
is_document_element(e) ==
    e.foldertype = None /\ ~EM_check_node_us(e) /\ e.em_type = "document"

\* the index of the first document element of the file that bears the name
\* of the k-th element
kept_document(k) ==
    CHOOSE j \in DOMAIN gfile.nodes :
        /\ is_document_element(gfile.nodes[j])
        /\ gfile.nodes[j].name = gfile.nodes[k].name
        /\ \A i \in DOMAIN gfile.nodes :
              is_document_element(gfile.nodes[i])
                /\ gfile.nodes[i].name = gfile.nodes[k].name => j <= i

\* indices of the document elements that repeat the name of an earlier one
dropped_documents ==
    { k \in DOMAIN gfile.nodes :
        is_document_element(gfile.nodes[k]) /\ kept_document(k) # k }

\* the raw ids of the dropped documents the node pass has met
dropped_ids ==
    { gfile.nodes[k].id : k \in { d \in dropped_documents :
                                    gfile.nodes[d].id \in DOMAIN imp.id_mapping } }

\* the raw id an endpoint stands for: that of the kept document if the
\* endpoint is a dropped one
resolved(raw_id) ==
    IF \E k \in dropped_documents : gfile.nodes[k].id = raw_id
    THEN gfile.nodes[kept_document(
            CHOOSE k \in dropped_documents : gfile.nodes[k].id = raw_id)].id
    ELSE raw_id

\* the identifiers the remapping table holds for the dropped documents alone:
\* a pasted copy that carries the EMID of the kept document has none
dropped_identifiers ==
    { imp.id_mapping[d] :
        d \in { x \in dropped_ids : imp.id_mapping[x] # imp.id_mapping[resolved(x)] } }

stored_edges_of(edge_element) ==
    { i \in DOMAIN imp.graph.edges :
        imp.graph.edges[i].original_edge_id = edge_element.id }

refused(edge_element, error) ==
    \E i \in DOMAIN imp.log :
        /\ imp.log[i].what = edge_element.id
        /\ imp.log[i].error = error

\* C2: when a file has been parsed completely (node pass, edge pass,
\* slipback) and the rewritten file is parsed again, every <node> element is
\* given the identifier the first parse gave it and every <edge> element is
\* stored under the identifier the first parse stored it under; this holds
\* also for a file that declared no EMID keys.
C2_IdentifierStability ==
    (gpc = "done" /\ firstParse.done) =>
      /\ \A k \in DOMAIN gfile.nodes :
            gfile.nodes[k].id \in DOMAIN firstParse.id_mapping =>
               /\ gfile.nodes[k].id \in DOMAIN imp.id_mapping
               /\ imp.id_mapping[gfile.nodes[k].id]
                    = firstParse.id_mapping[gfile.nodes[k].id]
      /\ \A k \in DOMAIN gfile.edges :
            edge_uuid_of(imp.graph, gfile.edges[k].id)
              = edge_uuid_of(firstParse.graph, gfile.edges[k].id)

C5_DocumentsUniqueByName ==
    /\ \A i, j \in DOMAIN imp.graph.nodes :
          ( /\ imp.graph.nodes[i].node_type = "DocumentNode"
            /\ imp.graph.nodes[j].node_type = "DocumentNode"
            /\ imp.graph.nodes[i].name = imp.graph.nodes[j].name ) => i = j
    /\ \A k \in dropped_documents :
          gfile.nodes[k].id \in DOMAIN imp.id_mapping =>
             /\ \A i \in DOMAIN imp.graph.nodes :
                   imp.graph.nodes[i].original_id # gfile.nodes[k].id
             /\ imp.id_mapping[gfile.nodes[k].id] \in dropped_identifiers =>
                   ~ HasNode(imp.graph, imp.id_mapping[gfile.nodes[k].id])
             /\ gfile.nodes[k].id \in DOMAIN imp.duplicate_id_map
             /\ imp.duplicate_id_map[gfile.nodes[k].id]
                  = gfile.nodes[kept_document(k)].id

\* the node pass has dropped two documents that repeat one name
C5_Witness ==
    /\ passes_done
    /\ \E a, b \in dropped_ids :
          /\ a # b
          /\ imp.duplicate_id_map[a] = imp.duplicate_id_map[b]

\* C6: after the edge pass every <edge> element with a dropped duplicate
\* document as raw source or target, and whose endpoints are elements of the
\* file, is stored with each such endpoint replaced by the adopted identifier
\* of the kept document (unless the graph refused the type of the edge), and
\* no stored edge has the identifier minted for a dropped duplicate as an
\* endpoint.
C6_EdgesFollowKeptDocument ==
    passes_done =>
      /\ \A k \in DOMAIN gfile.edges :
            LET edge_element == gfile.edges[k]
                source == resolved(edge_element.source)
                target == resolved(edge_element.target)
            IN ( /\ {edge_element.source, edge_element.target} \cap dropped_ids # {}
                 /\ source \in DOMAIN imp.id_mapping
                 /\ target \in DOMAIN imp.id_mapping )
               => \/ refused(edge_element, "forbidden-connection")
                  \/ /\ stored_edges_of(edge_element) # {}
                     /\ \A i \in stored_edges_of(edge_element) :
                           /\ imp.graph.edges[i].edge_source = imp.id_mapping[source]
                           /\ imp.graph.edges[i].edge_target = imp.id_mapping[target]
      /\ \A i \in DOMAIN imp.graph.edges :
            { imp.graph.edges[i].edge_source, imp.graph.edges[i].edge_target }
               \cap dropped_identifiers = {}

\* two documents repeat the name of a kept one and edges that named each of
\* them are stored on the kept document
C6_Witness ==
    /\ passes_done
    /\ \E k, l \in DOMAIN gfile.edges :
          /\ gfile.edges[k].target \in dropped_ids
          /\ gfile.edges[l].target \in dropped_ids
          /\ gfile.edges[k].target # gfile.edges[l].target
          /\ \E i, j \in DOMAIN imp.graph.edges :
                /\ i \in stored_edges_of(gfile.edges[k])
                /\ j \in stored_edges_of(gfile.edges[l])
                /\ imp.graph.edges[i].edge_target = imp.graph.edges[j].edge_target
                /\ HasNode(imp.graph, imp.graph.edges[i].edge_target)

\* C9: after the edge pass every <edge> element between two nodes whose
\* enhanced type the datamodel does not allow for the kinds of its endpoints
\* is stored with its raw type, and a warning is recorded for it.
C9_EnhancementNeverRejects ==
    passes_done =>
      \A k \in DOMAIN gfile.edges :
         LET edge_element == gfile.edges[k]
             source == resolved(edge_element.source)
             target == resolved(edge_element.target)
             raw_type == EM_extract_edge_type(edge_element)
         IN ( /\ source \in DOMAIN imp.id_mapping
              /\ target \in DOMAIN imp.id_mapping
              /\ HasNode(imp.graph, imp.id_mapping[source])
              /\ HasNode(imp.graph, imp.id_mapping[target]) )
            => LET source_kind == kind_of(imp.graph, imp.id_mapping[source])
                   target_kind == kind_of(imp.graph, imp.id_mapping[target])
                   enhanced == enhance_edge_type(raw_type, source_kind, target_kind)
               IN ( /\ enhanced # raw_type
                    /\ ~ connection_allowed(StandardDatamodel, source_kind,
                                            target_kind, enhanced) )
                  => /\ \E i \in stored_edges_of(edge_element) :
                           imp.graph.edges[i].edge_type = raw_type
                     /\ \E i \in DOMAIN imp.log : imp.log[i].what = edge_element.id

\* C10: every node that carries a y_pos has at most one has_first_epoch
\* edge, and the target of that edge is an epoch whose band [min_y, max_y]
\* contains the y_pos of the node.
C10_AtMostOneFirstEpoch ==
    \A n \in DOMAIN imp.graph.nodes :
       imp.graph.nodes[n].has_y_pos =>
          LET node == imp.graph.nodes[n]
              firsts == { i \in DOMAIN imp.graph.edges :
                            /\ imp.graph.edges[i].edge_source = node.node_id
                            /\ imp.graph.edges[i].edge_type = "has_first_epoch" }
          IN /\ Cardinality(firsts) <= 1
             /\ \A i \in firsts :
                   \E e \in DOMAIN imp.graph.nodes :
                      /\ imp.graph.nodes[e].node_id = imp.graph.edges[i].edge_target
                      /\ imp.graph.nodes[e].node_type = "EpochNode"
                      /\ imp.graph.nodes[e].min_y <= node.y_pos
                      /\ node.y_pos <= imp.graph.nodes[e].max_y

\* epoch assignment has run on a graph with a node inside a band, which has
\* its has_first_epoch edge, and a node on the boundary shared by two bands
C10_Witness ==
    /\ gpc \in {"slipback", "done"}
    /\ \E i \in DOMAIN imp.graph.edges :
          imp.graph.edges[i].edge_type = "has_first_epoch"
    /\ \E n, a, b \in DOMAIN imp.graph.nodes :
          /\ imp.graph.nodes[n].has_y_pos
          /\ imp.graph.nodes[a].node_type = "EpochNode"
          /\ imp.graph.nodes[b].node_type = "EpochNode"
          /\ a # b
          /\ imp.graph.nodes[a].max_y = imp.graph.nodes[n].y_pos
          /\ imp.graph.nodes[b].min_y = imp.graph.nodes[n].y_pos

\* the epochs a node has an edge of the given type to
epochs_reached(graph, node, edge_type) ==
    { graph.edges[i].edge_target : i \in
        { j \in DOMAIN graph.edges :
            /\ graph.edges[j].edge_source = node.node_id
            /\ graph.edges[j].edge_type = edge_type } }

edges_from(graph, node, edge_type) ==
    { j \in DOMAIN graph.edges :
        /\ graph.edges[j].edge_source = node.node_id
        /\ graph.edges[j].edge_type = edge_type }

epoch_nodes(graph) ==
    { graph.nodes[e] : e \in { k \in DOMAIN graph.nodes :
                                 graph.nodes[k].node_type = "EpochNode" } }

epochs_assigned == gpc \in {"slipback", "done"}

\* C11: after epoch assignment a US or serSU node that carries a y_pos and
\* has no continuity node attached has a survive_in_epoch edge to exactly
\* the epochs whose max_y is below its y_pos, one edge each; a node of
\* another kind without continuity has no survive_in_epoch edge.
C11_SurviveInMoreRecentEpochs ==
    epochs_assigned =>
      \A n \in DOMAIN imp.graph.nodes :
         LET node == imp.graph.nodes[n]
         IN ( /\ node.has_y_pos
              /\ continuity_connection(imp.graph, node.node_id) = 0 )
            => /\ epochs_reached(imp.graph, node, "survive_in_epoch")
                    = IF node.node_type \in {"US", "serSU"}
                      THEN { epoch.node_id : epoch \in
                               { e \in epoch_nodes(imp.graph) : e.max_y < node.y_pos } }
                      ELSE {}
               /\ Cardinality(edges_from(imp.graph, node, "survive_in_epoch"))
                    = Cardinality(epochs_reached(imp.graph, node, "survive_in_epoch"))

\* a serSU without continuity lies in the second of two bands: it has its
\* first epoch there and survives in the epoch above
C11_Witness ==
    /\ epochs_assigned
    /\ \E n \in DOMAIN imp.graph.nodes :
          LET node == imp.graph.nodes[n]
          IN /\ node.node_type = "serSU"
             /\ node.has_y_pos
             /\ continuity_connection(imp.graph, node.node_id) = 0
             /\ Cardinality(epochs_reached(imp.graph, node, "has_first_epoch")) = 1
             /\ Cardinality(epochs_reached(imp.graph, node, "survive_in_epoch")) = 1
             /\ epochs_reached(imp.graph, node, "has_first_epoch")
                  # epochs_reached(imp.graph, node, "survive_in_epoch")

\* C12: a DocumentNode created from an element drawn inside the band of an
\* epoch ends the parse with exactly one has_first_epoch edge, to that
\* epoch, and no survive_in_epoch edge.
C12_DocumentHasFirstEpochOnly ==
    epochs_assigned =>
      \A k \in DOMAIN gfile.nodes :
         LET node_element == gfile.nodes[k]
         IN ( /\ is_document_element(node_element)
              /\ node_element.id \in DOMAIN imp.id_mapping
              /\ HasNode(imp.graph, imp.id_mapping[node_element.id]) )
            => LET node == find_node_by_id(imp.graph, imp.id_mapping[node_element.id])
               IN \A epoch \in epoch_nodes(imp.graph) :
                     (epoch.min_y < node_element.y /\ node_element.y < epoch.max_y)
                       => /\ epochs_reached(imp.graph, node, "has_first_epoch")
                               = {epoch.node_id}
                          /\ epochs_reached(imp.graph, node, "survive_in_epoch") = {}

(***************************************************************************)
(*                      PROPERTIES OF THE UTILITIES                        *)
(***************************************************************************)

\* C13: for every name and every graph code (empty, containing the
\* separator, or a name that already carries a prefix), removing the prefix
\* from the name that 'add' returned gives get_base_name(name).
C13_AddThenRemoveIsBaseName ==
    pfx.pc = "removed" => pfx.removed = get_base_name(pfx.name, Separator)

(***************************************************************************)
(*             SECOND RUN AND ROW HANDLING OF THE TABULAR IMPORTER         *)
(***************************************************************************)

second_run_done == tpc \in {"done", "failed"} /\ firstRun.done

\* C14: with overwrite=false, a second run of the importer on the same sheet
\* and on the graph the first run left adds no node, no PropertyNode and no
\* edge and changes no property value: the graph after the second run is
\* the graph after the first.
C14_SecondRunChangesNothing ==
    (second_run_done /\ ~ tab.overwrite) => tgraph = firstRun.graph

\* the entries of the warnings list that report a row that failed
row_errors(importer) ==
    { i \in DOMAIN importer.warnings : importer.warnings[i].kind = "row-error" }

\* the ID cell of the row the loop is at
current_row_id ==
    tab.df[tab.next_row][get_id_column(tab.mapping)]

\* C15: a row whose ID cell is null is skipped, not errored: every step of
\* the row loop that changes the graph (a node, a property, an edge), the
\* error count or the row errors in the warnings list is the processing of
\* a row whose ID cell is not null.
C15_NullIdRowIsSkipped ==
    [][ ( /\ tpc = "rows" /\ tpc' = "rows"
          /\ \/ tgraph' # tgraph
             \/ tab'.error_rows # tab.error_rows
             \/ row_errors(tab') # row_errors(tab) )
        => ( /\ tab.next_row \in DOMAIN tab.df
             /\ current_row_id # None ) ]_vars

\* a sheet with a null ID row and a row that names a node has been
\* imported: the graph has changed and no error was counted
C15_Witness ==
    /\ tpc = "done"
    /\ \E i \in DOMAIN trows : trows[i].US = None
    /\ tab.total_rows < Len(trows)
    /\ tgraph # tab.initial_graph
    /\ tab.error_rows = 0
    /\ row_errors(tab) = {}

\* the columns of the mapping that have a header in the sheet
matched_columns ==
    { c \in Range(ColumnNames(tab.mapping)) :
        \E i \in DOMAIN tab.headers :
           normalize_column_name(tab.headers[i]) = normalize_column_name(c) }

unmatched_columns == Range(ColumnNames(tab.mapping)) \ matched_columns

has_warning(importer, kind, what) ==
    \E i \in DOMAIN importer.warnings :
        importer.warnings[i] = Warning(kind, what)

fatal_warnings(importer) ==
    { i \in DOMAIN importer.warnings : importer.warnings[i].kind = "fatal" }

\* C16: when no column of the mapping has a header in the sheet, or the ID
\* column has none, parse() ends with a fatal error before the row loop and
\* leaves the graph as it was, and nothing is done afterwards; when the ID
\* column is matched, columns without a header are reported as warnings and
\* the row loop starts.
C16_UnmatchedColumnsAreFatalOnlyForId ==
    [][ /\ ( /\ tpc = "start"
             /\ \/ matched_columns = {}
                \/ get_id_column(tab.mapping) \notin matched_columns )
           => ( /\ tpc' = "failed"
                /\ tgraph' = tgraph
                /\ fatal_warnings(tab') # {}
                /\ tab'.next_row = 1 )
        /\ tpc # "failed"
        /\ ( /\ tpc = "start"
             /\ trows # <<>>
             /\ get_id_column(tab.mapping) \in matched_columns )
           => ( /\ tpc' = "rows"
                /\ fatal_warnings(tab') = {}
                /\ \A c \in unmatched_columns :
                      has_warning(tab', "column-not-found", c) ) ]_vars

\* one import has failed because the ID column has no header although
\* another column is matched
C16_WitnessFatal ==
    /\ tpc = "failed"
    /\ matched_columns # {}
    /\ get_id_column(tab.mapping) \notin matched_columns
    /\ trows # <<>>

\* what the processing of one row did: the exception, the value returned,
\* the nodes added (name, kind, value) and the number of edges added
row_effect(graph, r) ==
    [ err |-> r.err, result |-> r.result,
      nodes |-> { << r.graph.nodes[i].name, r.graph.nodes[i].node_type,
                     r.graph.nodes[i].value >> :
                    i \in (DOMAIN r.graph.nodes) \ (DOMAIN graph.nodes) },
      edges |-> Len(r.graph.edges) - Len(graph.edges),
      values_kept |-> \A i \in DOMAIN graph.nodes :
                         r.graph.nodes[i].value = graph.nodes[i].value ]

\* the loop of parse() over the given rows, as the effects of each row
RECURSIVE row_effects(_, _, _, _)
row_effects(importer, graph, rows, ctr) ==
    IF rows = <<>> THEN <<>>
    ELSE LET new_id == "uuid" \o ToString(ctr)
             r == row_outcome(importer, graph, Head(rows), new_id)
         IN << row_effect(graph, r) >>
            \o row_effects(importer, r.graph, Tail(rows),
                           IF HasNode(r.graph, new_id) THEN ctr + 1 ELSE ctr)

without_row(rows, j) ==
    SubSeq(rows, 1, j - 1) \o SubSeq(rows, j + 1, Len(rows))

first_run_done == tpc = "done" /\ ~ firstRun.done

\* C17: a row that fails does not abort the import: each failure is counted
\* and appended to the warnings list, every row of the sheet is handled,
\* and every row after a failing one has the effects it has when the
\* failing row is taken out of the sheet.
C17_RowErrorDoesNotAbort ==
    first_run_done =>
      LET effects == row_effects(tab, tab.initial_graph, tab.df, 1)
          failed == { j \in DOMAIN tab.df : effects[j].err # "ok" }
      IN /\ tab.error_rows = Cardinality(failed)
         /\ Cardinality(row_errors(tab)) = Cardinality(failed)
         /\ tab.successful_rows + tab.skipped_rows + tab.error_rows = Len(tab.df)
         /\ \A j \in failed :
               LET others == row_effects(tab, tab.initial_graph,
                                         without_row(tab.df, j), 1)
               IN \A k \in (j + 1)..Len(tab.df) : effects[k] = others[k - 1]

\* the stratigraphic nodes the running import has created
created_units ==
    { i \in DOMAIN tgraph.nodes :
        /\ tgraph.nodes[i].node_id \notin NodeIds(tab.initial_graph)
        /\ tgraph.nodes[i].node_type # "PropertyNode" }

\* C18: a stratigraphic node created by the tabular importer has the kind
\* named by node_type in the mapping entry of the ID column when there is
\* one, otherwise by the stratigraphic_type of the mapping when there is
\* one, otherwise US.
C18_CreatedKindFollowsIdColumn ==
    tpc \in {"rows", "done"} =>
      \A i \in created_units :
         tgraph.nodes[i].node_type =
            get_stratigraphic_node_class(get_node_type_from_id_column(tab.mapping))

(***************************************************************************)
(*                  PROPERTIES OF THE MAPPING REGISTRY                     *)
(***************************************************************************)

RECURSIVE reversed(_)
reversed(seq) ==
    IF seq = <<>> THEN <<>> ELSE reversed(Tail(seq)) \o << Head(seq) >>

\* the directories added with the given priority, in the order added
added_with(priority) ==
    LET chosen == SelectSeq(reg.adds, LAMBDA a : a.priority = priority)
    IN [i \in DOMAIN chosen |-> chosen[i].directory]

\* high-priority directories, most recently added first, then the built-in
\* directory, then the low-priority directories in the order added
search_order ==
    reversed(added_with("high")) \o << BuiltinDirectory >> \o added_with("low")

\* the file name looked for: .json is appended when it is missing
file_name_of(mapping_name) ==
    CASE mapping_name = "m"      -> "m.json"
      [] mapping_name = "m.json" -> "m.json"
      [] mapping_name = "n"      -> "n.json"
      [] mapping_name = "absent" -> "absent.json"

holders(mapping_name) ==
    { i \in DOMAIN search_order :
        file_name_of(mapping_name) \in disk[search_order[i]] }

\* C19: after any sequence of add_mapping_directory calls the search order
\* is the high-priority directories, most recently added first, then the
\* built-in directory, then the low-priority directories in the order
\* added; find_mapping_file returns the path in the first directory of that
\* order that holds the name (with .json appended when missing), none when
\* no directory holds it.
C19_SearchOrder ==
    /\ reg.directories = search_order
    /\ (lastFind.called /\ lastFind.adds = reg.adds) =>
          IF holders(lastFind.name) = {} THEN lastFind.path = None
          ELSE LET first == CHOOSE i \in holders(lastFind.name) :
                               \A j \in holders(lastFind.name) : i <= j
               IN lastFind.path = search_order[first] \o "/" \o file_name_of(lastFind.name)

\* two directories were added with high priority and one with low; a name
\* given without .json is found in the directory added last with high
\* priority although the one added first and the built-in one hold it too
C19_Witness ==
    /\ Len(added_with("high")) = 2
    /\ Len(added_with("low")) = 1
    /\ added_with("high")[1] # added_with("high")[2]
    /\ lastFind.called
    /\ lastFind.adds = reg.adds
    /\ lastFind.name = "m"
    /\ \A d \in ExistingDirectories : "m.json" \in disk[d]
    /\ lastFind.path = added_with("high")[2] \o "/m.json"

(***************************************************************************)
(*                   PROPERTIES OF THE DATAMODEL SINGLETON                 *)
(***************************************************************************)

\* C20: get_connections_datamodel returns the instance already loaded until
\* reload_connections_datamodel is called; a reload builds a new instance
\* from the file and leaves the reference edge.py holds as it was; and an
\* Edge constructed at any time is accepted exactly when its type is in the
\* datamodel that is the singleton at that time.
C20_SingletonAndReload ==
    [][ /\ (globalDM.loaded /\ dmInstance' = dmInstance) => globalDM' = globalDM
        /\ dmInstance' # dmInstance =>
              /\ globalDM' = load_datamodel(dmFile)
              /\ edgeModule.imported => edgeModule' = edgeModule
        /\ lastEdge' # lastEdge =>
              ( lastEdge'.err = "ok"
                  <=> lastEdge'.edge_type \in DOMAIN globalDM.expanded_edges ) ]_vars

(***************************************************************************)
(*                     LINK NODES OF THE GRAPHML IMPORTER                  *)
(***************************************************************************)

\* the LinkNode made for the node that the element of raw id raw_id became
link_of(raw_id) == imp.id_mapping[raw_id] \o "_link"

\* the k-th element is a document that was created as a new DocumentNode
created_document(k) ==
    /\ is_document_element(gfile.nodes[k])
    /\ kept_document(k) = k
    /\ gfile.nodes[k].id \in DOMAIN imp.id_mapping

link_nodes(graph) ==
    { i \in DOMAIN graph.nodes : graph.nodes[i].node_type = "LinkNode" }

linked_resource_edges(graph, link_id) ==
    { i \in DOMAIN graph.edges :
        /\ graph.edges[i].edge_target = link_id
        /\ graph.edges[i].edge_type = "has_linked_resource" }

\* C21: after the passes of a parse, a document element has a LinkNode
\* exactly when it was created as a new DocumentNode and its URL is
\* non-empty and not the literal 'Empty'; and every LinkNode of the graph is
\* the target of exactly one has_linked_resource edge, whose source is the
\* node the LinkNode was made for.
C21_LinkNodeIffUrl ==
    passes_done =>
        /\ \A k \in DOMAIN gfile.nodes :
              (is_document_element(gfile.nodes[k])
                 /\ gfile.nodes[k].id \in DOMAIN imp.id_mapping) =>
                 ( HasNode(imp.graph, link_of(gfile.nodes[k].id))
                     <=> ( /\ created_document(k)
                           /\ gfile.nodes[k].url \notin {"", "Empty"} ) )
        /\ \A l \in link_nodes(imp.graph) :
              LET edges == linked_resource_edges(imp.graph, imp.graph.nodes[l].node_id)
              IN /\ Cardinality(edges) = 1
                 /\ \A e \in edges :
                       imp.graph.nodes[l].node_id =
                           imp.graph.edges[e].edge_source \o "_link"

(***************************************************************************)
(*                  GENERAL DATA OF THE GRAPHML IMPORTER                   *)
(***************************************************************************)

author_nodes(graph) ==
    { i \in DOMAIN graph.nodes : graph.nodes[i].node_type = "AuthorNode" }

\* C22: when the graph-header label of the file carries an ORCID entry, the
\* graph that parse returns has an AuthorNode for that ORCID, a node that
\* stands for the graph, and one has_author edge between the two; and the
\* description, embargo and license entries of the header are the graph's.
C22_HeaderPopulatesGraph ==
    (gpc = "done" /\ gfile.header.ORCID # None) =>
        /\ \E a \in author_nodes(imp.graph) :
              /\ imp.graph.nodes[a].node_id = "author_" \o gfile.header.ORCID
              /\ Cardinality({ e \in DOMAIN imp.graph.edges :
                                 /\ imp.graph.edges[e].edge_type = "has_author"
                                 /\ imp.graph.edges[e].edge_source =
                                       imp.graph.nodes[a].node_id
                                 /\ HasNode(imp.graph, imp.graph.edges[e].edge_target)
                                 /\ kind_of(imp.graph, imp.graph.edges[e].edge_target)
                                       = "Node" }) = 1
        /\ imp.graph_fields.description = gfile.header.description
        /\ imp.graph_fields.embargo_until = gfile.header.embargo
        /\ imp.graph_fields.license = gfile.header.license

(***************************************************************************)
(*                      WHAT THE SLIPBACK LEAVES IN THE FILE               *)
(***************************************************************************)

\* C23: after slipback every <node> element whose raw id is in the remapping
\* table (a simple node or a group, also a group whose nested nodes carry
\* EMID data) holds the adopted identifier as its own EMID data, every
\* <edge> element that became an edge holds the identifier of that edge, and
\* the EMID and URI keys are declared for nodes and for edges, whether or
\* not the file declared them before the parse.
C23_SlipbackWritesEveryIdentifier ==
    gpc = "done" =>
        /\ \A k \in DOMAIN gfile.nodes :
              gfile.nodes[k].id \in DOMAIN imp.id_mapping =>
                  gfile.nodes[k].emid = imp.id_mapping[gfile.nodes[k].id]
        /\ \A k \in DOMAIN gfile.edges :
              edge_uuid_of(imp.graph, gfile.edges[k].id) # None =>
                  gfile.edges[k].emid = edge_uuid_of(imp.graph, gfile.edges[k].id)
        /\ { <<"node", "EMID">>, <<"edge", "EMID">>,
             <<"node", "URI">>, <<"edge", "URI">> } \subseteq gfile.keys

(***************************************************************************)
(*                   IDENTIFIERS OF THE EPOCHS ACROSS PARSES               *)
(***************************************************************************)

swimlane_rows ==
    UNION { Range(gfile.nodes[k].rows) : k \in DOMAIN gfile.nodes }

epoch_edge_ids(graph) ==
    { graph.edges[i].edge_id : i \in { j \in DOMAIN graph.edges :
        graph.edges[j].edge_type \in {"has_first_epoch", "survive_in_epoch"} } }

\* C24: when a file that a slipback has already rewritten is parsed twice,
\* the EpochNode of every swimlane row has the same identifier in both
\* parses, and so has every has_first_epoch and survive_in_epoch edge.
C24_EpochIdentifiersAreStable ==
    (firstParse.same_file /\ epochs_assigned) =>
        /\ \A row \in swimlane_rows :
              /\ row.id \in DOMAIN imp.id_mapping
              /\ row.id \in DOMAIN firstParse.id_mapping
              /\ imp.id_mapping[row.id] = firstParse.id_mapping[row.id]
        /\ epoch_edge_ids(imp.graph) = epoch_edge_ids(firstParse.graph)

(***************************************************************************)
(*                   THE RULES OF THE EDGE-TYPE ENHANCER                   *)
(***************************************************************************)

Rule(source, target, type) == [ source |-> source, target |-> target, type |-> type ]

strat == StratigraphicTypes \cup {"StratigraphicNode"}

\* the rules of a raw type, in the order they are tried
rules_of(raw_type) ==
    IF raw_type = "has_data_provenance" THEN
        << Rule(strat, {"PropertyNode"}, "has_property"),
           Rule(strat, {"ParadataNodeGroup"}, "has_paradata_nodegroup"),
           Rule({"ParadataNodeGroup"}, strat, "has_paradata_nodegroup"),
           Rule({"ExtractorNode"}, {"DocumentNode"}, "extracted_from"),
           Rule({"CombinerNode"}, {"ExtractorNode"}, "combines"),
           Rule(strat, {"DocumentNode"}, "has_documentation"),
           Rule({"DocumentNode"}, strat, "is_documentation_of") >>
    ELSE IF raw_type = "generic_connection" THEN
        << Rule(strat, {"DocumentNode"}, "has_documentation"),
           Rule({"DocumentNode"}, strat, "is_documentation_of"),
           Rule(ParadataTypes, {"ParadataNodeGroup"}, "is_in_paradata_nodegroup"),
           Rule({"ParadataNodeGroup"}, {"ActivityNodeGroup"},
                "has_paradata_nodegroup") >>
    ELSE <<>>

matching_rules(raw_type, source, target) ==
    { i \in DOMAIN rules_of(raw_type) :
        source \in rules_of(raw_type)[i].source
          /\ target \in rules_of(raw_type)[i].target }

first_match(raw_type, source, target) ==
    LET hits == matching_rules(raw_type, source, target)
    IN IF hits = {} THEN raw_type
       ELSE rules_of(raw_type)[CHOOSE i \in hits : \A j \in hits : i <= j].type

\* C25: for every raw type and every pair of endpoint kinds enhance_edge_type
\* returns the type of the first rule of the table that matches; any other
\* raw type, a pair no rule matches and a missing endpoint give the raw type
\* back unchanged.
C25_FirstMatchingRule ==
    enh.pc = "done" => enh.result = first_match(enh.edge_type, enh.source, enh.target)

\* a generic connection from a paradata node to a paradata group was enhanced
C25_Witness ==
    /\ enh.pc = "done"
    /\ enh.edge_type = "generic_connection"
    /\ enh.source = "ExtractorNode"
    /\ enh.target = "ParadataNodeGroup"
    /\ enh.result = "is_in_paradata_nodegroup"

(***************************************************************************)
(*                 EPOCHS OF A NODE WITH A CONTINUITY NODE                 *)
(***************************************************************************)

\* the epochs whose upper bound lies between the continuity node and the node
epochs_between(graph, continuity, node) ==
    { epoch.node_id : epoch \in
        { e \in epoch_nodes(graph) :
            continuity.y_pos < e.max_y /\ e.max_y < node.y_pos } }

\* C26: after epoch assignment a node with a y_pos that is the target of an
\* edge from a continuity (BR) node has a survive_in_epoch edge to exactly
\* the epochs with continuity.y_pos < epoch.max_y < node.y_pos, one edge
\* each: the rule of the physical units (every epoch with max_y < y_pos) is
\* not applied to it.
C26_ContinuityBoundsSurvival ==
    epochs_assigned =>
      \A n \in DOMAIN imp.graph.nodes :
         LET node == imp.graph.nodes[n]
             c == continuity_connection(imp.graph, node.node_id)
         IN (node.has_y_pos /\ c # 0)
            => /\ epochs_reached(imp.graph, node, "survive_in_epoch")
                    = epochs_between(imp.graph, imp.graph.nodes[c], node)
               /\ Cardinality(edges_from(imp.graph, node, "survive_in_epoch"))
                    = Cardinality(epochs_reached(imp.graph, node, "survive_in_epoch"))

\* a physical unit below two epochs, with a continuity node between them:
\* it survives in the lower epoch only
C26_Witness ==
    /\ epochs_assigned
    /\ \E n \in DOMAIN imp.graph.nodes :
          LET node == imp.graph.nodes[n]
              c == continuity_connection(imp.graph, node.node_id)
          IN /\ node.has_y_pos /\ c # 0
             /\ node.node_type \in {"US", "serSU"}
             /\ Cardinality(epochs_reached(imp.graph, node, "survive_in_epoch")) = 1
             /\ Cardinality({ e \in epoch_nodes(imp.graph) : e.max_y < node.y_pos }) = 2

(***************************************************************************)
(*                 THE PROPERTIES A TABULAR ROW CREATES                    *)
(***************************************************************************)

\* the step is one iteration of the row loop
row_step == tpc = "rows" /\ tab.next_row \in DOMAIN tab.df /\ tab'.next_row = tab.next_row + 1

\* the columns of the mapping that are neither the ID nor the description
property_columns ==
    { i \in DOMAIN tab.mapping.column_mappings :
        /\ ~ tab.mapping.column_mappings[i].is_id
        /\ ~ tab.mapping.column_mappings[i].is_description }

property_name(i) ==
    IF tab.mapping.column_mappings[i].display_name # None
    THEN tab.mapping.column_mappings[i].display_name
    ELSE tab.mapping.column_mappings[i].col

\* the value the current row has in the i-th column of the mapping, None
\* when the column has no header in the sheet or the cell is empty
row_value(i) ==
    LET col == tab.mapping.column_mappings[i].col
        cell == tab.df[tab.next_row][col]
    IN IF col \in tab.json_to_excel_mapping /\ cell \notin {None, "", " "}
       THEN cell ELSE None

node_ids_of_kind(graph, kind) ==
    { graph.nodes[k].node_id : k \in { j \in DOMAIN graph.nodes :
                                         graph.nodes[j].node_type = kind } }

property_edges(graph, node_id, prop_id) ==
    { e \in DOMAIN graph.edges :
        /\ graph.edges[e].edge_type = "has_property"
        /\ graph.edges[e].edge_source = node_id
        /\ graph.edges[e].edge_target = prop_id }

counted_rows == tab.successful_rows + tab.skipped_rows + tab.error_rows

\* C28: the rows left after the null-ID filter are counted in exactly one of
\* successful_rows, skipped_rows and error_rows: during the loop the three
\* add up to the number of rows handled so far, and when parse ends they add
\* up to total_rows.
C28_CountersPartitionRows ==
    /\ tpc \in {"rows", "done"} =>
         /\ tab.total_rows = Len(tab.df)
         /\ counted_rows = tab.next_row - 1
    /\ tpc = "done" => counted_rows = tab.total_rows

\* a parse ended with a row imported and a row that raised
C28_Witness ==
    /\ tpc = "done"
    /\ tab.successful_rows = 1
    /\ tab.error_rows = 1
    /\ tab.total_rows = 2

\* a parse ended with a row imported and a row skipped
C28_WitnessSkipped ==
    /\ tpc = "done"
    /\ tab.successful_rows = 1
    /\ tab.skipped_rows = 1

(***************************************************************************)
(*                 ONE NODE FOR EVERY <node> ELEMENT                       *)
(***************************************************************************)

\* the nodes of the graph that stem from the element with the given raw id
nodes_of_element(graph, original_id) ==
    { i \in DOMAIN graph.nodes : graph.nodes[i].original_id = original_id }

containment_types ==
    {"is_in_activity", "is_in_paradata_nodegroup", "is_in_timebranch"}

\* the containment edges of the graph that lead from a node of the element
\* child_id to a node of the group element group_id
containment_edges(graph, child_id, group_id) ==
    { e \in DOMAIN graph.edges :
        /\ graph.edges[e].edge_type \in containment_types
        /\ \E c \in nodes_of_element(graph, child_id) :
             graph.nodes[c].node_id = graph.edges[e].edge_source
        /\ \E g \in nodes_of_element(graph, group_id) :
             graph.nodes[g].node_id = graph.edges[e].edge_target }

\* C29: within one parse every <node> element yields at most one node of
\* the graph, the node carries the identifier the remapping table holds for
\* the element, and a node nested in a group has at most one containment
\* edge to it, also for a group nested in another group.
C29_OneNodePerElement ==
    \A k \in DOMAIN gfile.nodes :
      LET element == gfile.nodes[k]
          made == nodes_of_element(imp.graph, element.id)
      IN /\ Cardinality(made) <= 1
         /\ \A i \in made :
              /\ element.id \in DOMAIN imp.id_mapping
              /\ imp.graph.nodes[i].node_id = imp.id_mapping[element.id]
         /\ element.parent # None =>
              Cardinality(containment_edges(imp.graph, element.id, element.parent)) <= 1

(***************************************************************************)
(*                    THE REMAPPING TABLE IS INJECTIVE                     *)
(***************************************************************************)

\* the raw ids of the remapping table whose element created a node
creating_ids ==
    { a \in DOMAIN imp.id_mapping : nodes_of_element(imp.graph, a) # {} }

\* the edges of the graph that stem from the <edge> element
edges_of_element(graph, original_edge_id) ==
    { e \in DOMAIN graph.edges : graph.edges[e].original_edge_id = original_edge_id }

\* two <node> elements of the file carry the same EMID data
same_emid_elements ==
    { pair \in (DOMAIN gfile.nodes) \X (DOMAIN gfile.nodes) :
        /\ pair[1] < pair[2]
        /\ gfile.nodes[pair[1]].emid # None
        /\ gfile.nodes[pair[1]].emid = gfile.nodes[pair[2]].emid }

====
